---- MODULE Spec2Model ----
(***************************************************************************)
(* VECTQL: the vector-query AST (internal/types), its validator, the       *)
(* fluent builder and the four provider renderers (Pinecone, Qdrant,       *)
(* Milvus, Weaviate).                                                      *)
(*                                                                         *)
(* Go values are modelled as follows.                                      *)
(*   - a nil pointer / nil interface is NilVal;                            *)
(*   - a Param is the record [Name |-> n];                                 *)
(*   - a Go map is a TLA+ function (the empty map is <<>>);                *)
(*   - an error is its message string, the nil error is "";                *)
(*   - a JSON document is the tagged value tree handed to json.Marshal,    *)
(*     which writes object keys sorted, so two trees are the same bytes    *)
(*     exactly when they are equal.                                        *)
(***************************************************************************)
EXTENDS Integers, Sequences, FiniteSets, TLC

VARIABLES
    origin,   \* who holds the AST: "caller" (assembled by hand) or "builder"
    ast,      \* the VectorAST under construction or under test
    err,      \* the error the builder holds ("" for none)
    calls,    \* how many Filter and AddVector calls the builder has been sent
    ret,      \* what the last call returned
    threads   \* the goroutines calling Validate and Render concurrently: the locals of
              \* each one's call, and the memory the calls share

vars == <<origin, ast, err, calls, ret, threads>>

-----------------------------------------------------------------------------
(* Limits, internal/types/ast.go *)

MaxFilterDepth == 5
MaxBatchSize == 100
MaxTopK == 10000
MaxMetadataFields == 50
MaxIDsPerFetch == 1000

OpSearch == "SEARCH"
OpUpsert == "UPSERT"
OpDelete == "DELETE"
OpFetch == "FETCH"
OpUpdate == "UPDATE"

Operations == {OpSearch, OpUpsert, OpDelete, OpFetch, OpUpdate}

\* Filter operators (types.FilterOperator), under their api.go names
OpEQ == "="
OpNE == "!="
OpGT == ">"
OpGE == ">="
OpLT == "<"
OpLE == "<="
OpIN == "IN"
OpNotIn == "NOT_IN"
OpContains == "CONTAINS"
OpStartsWith == "STARTS_WITH"
OpEndsWith == "ENDS_WITH"
OpMatches == "MATCHES"
OpExists == "EXISTS"
OpNotExists == "NOT_EXISTS"
OpArrayContains == "ARRAY_CONTAINS"
OpArrayContainsAny == "ARRAY_CONTAINS_ANY"
OpArrayContainsAll == "ARRAY_CONTAINS_ALL"

FilterOperators ==
    {OpEQ, OpNE, OpGT, OpGE, OpLT, OpLE, OpIN, OpNotIn, OpContains, OpStartsWith, OpEndsWith,
     OpMatches, OpExists, OpNotExists, OpArrayContains, OpArrayContainsAny, OpArrayContainsAll}

LogicAND == "AND"
LogicOR == "OR"
LogicNOT == "NOT"

-----------------------------------------------------------------------------
(* Values of the AST *)

NilVal == [nil |-> TRUE]

P(n) == [Name |-> n]

M(n) == [Name |-> n, Collection |-> "products"]

\* a float32: a finite number or NaN (json.Marshal refuses NaN and the infinities)
Fl(n) == [f |-> n]
NaN == [nan |-> TRUE]

\* a slice of literals is nil (NilVal) or holds its elements: Slice(<<>>) is the empty
\* slice that is not nil
Slice(elems) == [elems |-> elems]

\* expressions.go: Vec / VecLiteral
Vec(p) == [Literal |-> NilVal, Param |-> p]
VecLiteral(values) == [Literal |-> values, Param |-> NilVal]

\* expressions.go: SparseVec / SparseVecLiteral
SparseVec(p) == [Indices |-> NilVal, Values |-> NilVal, Param |-> p]
SparseVecLiteral(indices, values) == [Indices |-> indices, Values |-> values, Param |-> NilVal]

\* types.PaginationValue
StaticK(k) == [Static |-> [val |-> k], Param |-> NilVal]
ParamK(p) == [Static |-> NilVal, Param |-> p]

\* types.VectorRecord, as expressions.go NewRecord / WithMetadata / WithSparseVector build it
Record(id, vector, metadata, sparse) ==
    [ID |-> id, Vector |-> vector, Metadata |-> metadata, SparseVector |-> sparse]

\* Filter nodes (types.FilterItem)
F(field, op, value) ==
    [type |-> "FilterCondition", Field |-> field, Operator |-> op, Value |-> value]

Group(logic, conditions) ==
    [type |-> "FilterGroup", Logic |-> logic, Conditions |-> conditions]

And(conditions) == Group(LogicAND, conditions)
Or(conditions) == Group(LogicOR, conditions)
Not(condition) == Group(LogicNOT, <<condition>>)

RangeFilter(field, minVal, maxVal, minEx, maxEx) ==
    [type |-> "RangeFilter", Field |-> field, Min |-> minVal, Max |-> maxVal,
     MinExclusive |-> minEx, MaxExclusive |-> maxEx]

Range(field, minVal, maxVal) == RangeFilter(field, minVal, maxVal, FALSE, FALSE)
RangeExclusive(field, minVal, maxVal) == RangeFilter(field, minVal, maxVal, TRUE, TRUE)

Geo(field, lat, lon, radius) ==
    [type |-> "GeoFilter", Field |-> field,
     Center |-> [Lat |-> lat, Lon |-> lon], Radius |-> radius]

\* expressions.go: Exists / NotExists leave Value as the zero Param
ExistsF(field) == F(field, OpExists, P(""))
NotExistsF(field) == F(field, OpNotExists, P(""))

\* The zero VectorAST of an operation on a target
EmptyAST(op, target) ==
    [Operation |-> op,
     Target |-> [Name |-> target],
     QueryVector |-> NilVal,
     QueryEmbedding |-> NilVal,
     TopK |-> NilVal,
     MinScore |-> NilVal,
     IncludeVectors |-> FALSE,
     IncludeMetadata |-> FALSE,
     FilterClause |-> NilVal,
     MetadataFields |-> <<>>,
     Vectors |-> <<>>,
     Updates |-> <<>>,
     IDs |-> <<>>,
     DeleteAll |-> FALSE,
     Namespace |-> NilVal]

Repeat(x, n) == [i \in 1..n |-> x]

-----------------------------------------------------------------------------
(* Validation, internal/types/ast.go *)

ErrTarget == "target collection is required"
ErrNoVector == "SEARCH requires a query vector"
ErrNoTopK == "SEARCH requires TopK"
ErrNoVectors == "UPSERT requires at least one vector"
ErrDeleteNothing == "DELETE requires either IDs or a filter"
ErrDeleteAll == "DELETE by filter requires DeleteAll() flag for safety"
ErrFetchNoIDs == "FETCH requires at least one ID"
ErrUpdateNoIDs == "UPDATE requires at least one ID"
ErrUpdateNoFields == "UPDATE requires at least one field to update"

ErrTopKMax(k) == "TopK exceeds maximum: " \o ToString(k) \o " > " \o ToString(MaxTopK)
ErrTopKPositive(k) == "TopK must be positive: " \o ToString(k)
ErrMetadataFields(n) ==
    "metadata fields exceed maximum: " \o ToString(n) \o " > " \o ToString(MaxMetadataFields)
ErrBatch(n) == "batch size exceeds maximum: " \o ToString(n) \o " > " \o ToString(MaxBatchSize)
ErrTooManyIDs(n) == "too many IDs: " \o ToString(n) \o " > " \o ToString(MaxIDsPerFetch)
ErrDepth(d) == "filter nesting too deep: " \o ToString(d) \o " > " \o ToString(MaxFilterDepth)
ErrUnsupportedOp(op) == "unsupported operation: " \o op

RECURSIVE validateFilterDepth(_, _)
RECURSIVE validateChildren(_, _, _)

\* the loop over group.Conditions, returning at the first child that fails
validateChildren(conds, i, depth) ==
    IF i > Len(conds) THEN ""
    ELSE LET e == validateFilterDepth(conds[i], depth + 1)
         IN IF e # "" THEN e ELSE validateChildren(conds, i + 1, depth)

validateFilterDepth(f, depth) ==
    IF depth > MaxFilterDepth THEN ErrDepth(depth)
    ELSE IF f.type = "FilterGroup" THEN validateChildren(f.Conditions, 1, depth)
    ELSE ""

\* validateSearch with the metadata-field limit checked before the topK rules
validateSearch_FieldsFirst(a) ==
    IF a.QueryVector = NilVal THEN ErrNoVector
    ELSE IF a.TopK = NilVal THEN ErrNoTopK
    ELSE IF Len(a.MetadataFields) > MaxMetadataFields
        THEN ErrMetadataFields(Len(a.MetadataFields))
    ELSE IF a.TopK.Static # NilVal /\ a.TopK.Static.val > MaxTopK
        THEN ErrTopKMax(a.TopK.Static.val)
    ELSE IF a.TopK.Static # NilVal /\ a.TopK.Static.val <= 0
        THEN ErrTopKPositive(a.TopK.Static.val)
    ELSE IF a.FilterClause # NilVal THEN validateFilterDepth(a.FilterClause, 0)
    ELSE ""

validateSearch(a) ==
    IF a.QueryVector = NilVal THEN ErrNoVector
    ELSE IF a.TopK = NilVal THEN ErrNoTopK
    ELSE IF a.TopK.Static # NilVal /\ a.TopK.Static.val > MaxTopK
        THEN ErrTopKMax(a.TopK.Static.val)
    ELSE IF a.TopK.Static # NilVal /\ a.TopK.Static.val <= 0
        THEN ErrTopKPositive(a.TopK.Static.val)
    ELSE IF Len(a.MetadataFields) > MaxMetadataFields
        THEN ErrMetadataFields(Len(a.MetadataFields))
    ELSE IF a.FilterClause # NilVal THEN validateFilterDepth(a.FilterClause, 0)
    ELSE ""

\* validateUpsert without the batch-size limit
validateUpsert_NoLimit(a) ==
    IF Len(a.Vectors) = 0 THEN ErrNoVectors
    ELSE ""

validateUpsert(a) ==
    IF Len(a.Vectors) = 0 THEN ErrNoVectors
    ELSE IF Len(a.Vectors) > MaxBatchSize THEN ErrBatch(Len(a.Vectors))
    ELSE ""

\* validateDelete without the deleteAll gate
validateDelete_NoGate(a) ==
    IF Len(a.IDs) = 0 /\ a.FilterClause = NilVal THEN ErrDeleteNothing
    ELSE IF Len(a.IDs) > MaxIDsPerFetch THEN ErrTooManyIDs(Len(a.IDs))
    ELSE ""

\* a validateDelete that asks for the deleteAll flag of every DELETE, by ids too
validateDelete_FlagAlways(a) ==
    IF Len(a.IDs) = 0 /\ a.FilterClause = NilVal THEN ErrDeleteNothing
    ELSE IF ~a.DeleteAll THEN ErrDeleteAll
    ELSE IF Len(a.IDs) > MaxIDsPerFetch THEN ErrTooManyIDs(Len(a.IDs))
    ELSE ""

validateDelete(a) ==
    IF Len(a.IDs) = 0 /\ a.FilterClause = NilVal THEN ErrDeleteNothing
    ELSE IF a.FilterClause # NilVal /\ ~a.DeleteAll THEN ErrDeleteAll
    ELSE IF Len(a.IDs) > MaxIDsPerFetch THEN ErrTooManyIDs(Len(a.IDs))
    ELSE ""

validateFetch(a) ==
    IF Len(a.IDs) = 0 THEN ErrFetchNoIDs
    ELSE IF Len(a.IDs) > MaxIDsPerFetch THEN ErrTooManyIDs(Len(a.IDs))
    ELSE ""

\* validateUpdate without the check for updates
validateUpdate_NoFields(a) ==
    IF Len(a.IDs) = 0 THEN ErrUpdateNoIDs
    ELSE IF Len(a.IDs) > MaxIDsPerFetch THEN ErrTooManyIDs(Len(a.IDs))
    ELSE ""

validateUpdate(a) ==
    IF Len(a.IDs) = 0 THEN ErrUpdateNoIDs
    ELSE IF Cardinality(DOMAIN a.Updates) = 0 THEN ErrUpdateNoFields
    ELSE IF Len(a.IDs) > MaxIDsPerFetch THEN ErrTooManyIDs(Len(a.IDs))
    ELSE ""

Validate(a) ==
    IF a.Target.Name = "" THEN ErrTarget
    ELSE IF a.Operation = OpSearch THEN validateSearch(a)
    ELSE IF a.Operation = OpUpsert THEN validateUpsert(a)
    ELSE IF a.Operation = OpDelete THEN validateDelete(a)
    ELSE IF a.Operation = OpFetch THEN validateFetch(a)
    ELSE IF a.Operation = OpUpdate THEN validateUpdate(a)
    ELSE ErrUnsupportedOp(a.Operation)

-----------------------------------------------------------------------------
(* JSON values: what the renderers put into map[string]interface{} *)

JStr(s) == [j |-> "string", s |-> s]
JNum(n) == [j |-> "number", n |-> n]
JBool(b) == [j |-> "bool", b |-> b]
JNull == [j |-> "null"]
JNaN == [j |-> "NaN"]
JArr(a) == [j |-> "array", a |-> a]
JObj(m) == [j |-> "object", m |-> m]

\* m[k] = v on a Go map
Put(m, k, v) == (k :> v) @@ m

\* fmt.Sprintf(":%s", name)
Placeholder(name) == JStr(":" \o name)

\* a []float32 as json.Marshal sees it: the nil slice (that of a value without a
\* literal) encodes as null, the empty slice as []
JFloats(values) ==
    IF values = NilVal THEN JNull
    ELSE JArr([i \in 1..Len(values.elems) |->
                  IF values.elems[i] = NaN THEN JNaN ELSE JNum(values.elems[i].f)])

\* a []int: null when nil, [] when empty
JInts(values) ==
    IF values = NilVal THEN JNull
    ELSE JArr([i \in 1..Len(values.elems) |-> JNum(values.elems[i])])

\* a []string
JStrings(values) == JArr([i \in 1..Len(values) |-> JStr(values[i])])

RECURSIVE Encodable(_)
\* json.Marshal fails on a float that is not finite
Encodable(v) ==
    IF v.j = "NaN" THEN FALSE
    ELSE IF v.j = "array" THEN \A i \in 1..Len(v.a) : Encodable(v.a[i])
    ELSE IF v.j = "object" THEN \A k \in DOMAIN v.m : Encodable(v.m[k])
    ELSE TRUE

ErrSerialize == "failed to serialize query: json: unsupported value: NaN"

\* what a Render call returns: (*QueryResult, error)
Failed(e) == [result |-> NilVal, err |-> e]
Rendered(doc, params) == [result |-> [JSON |-> doc, RequiredParams |-> params], err |-> ""]

\* an emitter stopped by an error: the pair Render returns, and with it the accumulator
\* (`*params`) as the emitter left it, holding the names appended before the failure
Stopped(e, params) == [result |-> NilVal, err |-> e, params |-> params]

toResult(query, params) ==
    IF ~Encodable(JObj(query)) THEN Stopped(ErrSerialize, params)
    ELSE Rendered(JObj(query), params)

\* the accumulator of an emitter at its return: what toResult copied into the result,
\* or what the emitter had appended when it stopped
Accumulated(res) == IF res.err = "" THEN res.result.RequiredParams ELSE res.params

\* strings.Join
\* strings.Join over parts[lo..hi]
RECURSIVE JoinRange(_, _, _, _)
JoinRange(parts, lo, hi, sep) ==
    IF lo > hi THEN ""
    ELSE IF lo = hi THEN parts[lo]
    ELSE LET mid == (lo + hi) \div 2
         IN JoinRange(parts, lo, mid, sep) \o sep \o JoinRange(parts, mid + 1, hi, sep)

Join(parts, sep) == JoinRange(parts, 1, Len(parts), sep)

\* the names a loop appended to params, iteration after iteration: ss[lo] \o ... \o ss[hi]
RECURSIVE AppendedRange(_, _, _)
AppendedRange(ss, lo, hi) ==
    IF lo > hi THEN <<>>
    ELSE IF lo = hi THEN ss[lo]
    ELSE LET mid == (lo + hi) \div 2
         IN AppendedRange(ss, lo, mid) \o AppendedRange(ss, mid + 1, hi)

Appended(ss) == AppendedRange(ss, 1, Len(ss))

ErrUnsupportedFilter(f) == "unsupported filter type: types." \o f.type

\* The order in which one `for k, v := range m` visits the keys of m, when the
\* runtime draws the order o over all keys.
RangeOrder(m, o) == SelectSeq(o, LAMBDA k : k \in DOMAIN m)

\* orc[i] is the order drawn for the i-th range loop over a map in one Render call:
\* the runtime draws the order of every loop on its own
LoopOrder(orc, i) == orc[i]

\* append the parameter names of the entries of m, in visiting order
RangeParams(m, o) ==
    LET ks == RangeOrder(m, o) IN [i \in 1..Len(ks) |-> m[ks[i]].Name]

\* the JSON object a loop `obj[field.Name] = ":" + value.Name` builds over m into obj
RECURSIVE RangePut(_, _, _, _)
RangePut(obj, m, ks, i) ==
    IF i > Len(ks) THEN obj
    ELSE RangePut(Put(obj, ks[i].Name, Placeholder(m[ks[i]].Name)), m, ks, i + 1)

-----------------------------------------------------------------------------
(* Pinecone renderer, pkg/pinecone *)

\* a mapOperator without the equality default: an operator outside the table maps to no
\* keyword
pinecone_mapOperator_NoDefault(op) ==
    CASE op = OpEQ -> "$eq"
      [] op = OpNE -> "$ne"
      [] op = OpGT -> "$gt"
      [] op = OpGE -> "$gte"
      [] op = OpLT -> "$lt"
      [] op = OpLE -> "$lte"
      [] op = OpIN -> "$in"
      [] op = OpNotIn -> "$nin"
      [] OTHER -> ""

pinecone_mapOperator(op) ==
    CASE op = OpEQ -> "$eq"
      [] op = OpNE -> "$ne"
      [] op = OpGT -> "$gt"
      [] op = OpGE -> "$gte"
      [] op = OpLT -> "$lt"
      [] op = OpLE -> "$lte"
      [] op = OpIN -> "$in"
      [] op = OpNotIn -> "$nin"
      [] OTHER -> "$eq"

pinecone_mapLogic(logic) ==
    CASE logic = LogicAND -> "$and"
      [] logic = LogicOR -> "$or"
      [] logic = LogicNOT -> "$not"
      [] OTHER -> "$and"

pinecone_SupportsFilter(op) == op \in {OpEQ, OpNE, OpGT, OpGE, OpLT, OpLE, OpIN, OpNotIn}

RECURSIVE pinecone_renderFilter(_, _)
RECURSIVE pinecone_renderConditions(_, _, _, _)

\* the loop of the FilterGroup case: render each child, stop at the first error
pinecone_renderConditions(conds, i, conditions, params) ==
    IF i > Len(conds) THEN [v |-> conditions, params |-> params, err |-> ""]
    ELSE LET r == pinecone_renderFilter(conds[i], params)
         IN IF r.err # "" THEN [v |-> NilVal, params |-> r.params, err |-> r.err]
            ELSE pinecone_renderConditions(conds, i + 1, Append(conditions, r.v), r.params)

\* a renderFilter whose range ignores minExclusive: the lower bound is always "$gte"
pinecone_renderFilter_LooseMin(f, params) ==
    CASE f.type = "FilterCondition" ->
           [v |-> JObj(Put(<<>>, f.Field.Name,
                           JObj(Put(<<>>, pinecone_mapOperator(f.Operator),
                                    Placeholder(f.Value.Name))))),
            params |-> Append(params, f.Value.Name),
            err |-> ""]
      [] f.type = "FilterGroup" ->
           LET r == pinecone_renderConditions(f.Conditions, 1, <<>>, params)
           IN IF r.err # "" THEN r
              ELSE [v |-> JObj(Put(<<>>, pinecone_mapLogic(f.Logic), JArr(r.v))),
                    params |-> r.params,
                    err |-> ""]
      [] f.type = "RangeFilter" ->
           LET p1 == IF f.Min # NilVal THEN Append(params, f.Min.Name) ELSE params
               r1 == IF f.Min # NilVal THEN Put(<<>>, "$gte", Placeholder(f.Min.Name))
                     ELSE <<>>
               p2 == IF f.Max # NilVal THEN Append(p1, f.Max.Name) ELSE p1
               r2 == IF f.Max # NilVal
                     THEN Put(r1, IF f.MaxExclusive THEN "$lt" ELSE "$lte",
                              Placeholder(f.Max.Name))
                     ELSE r1
           IN [v |-> JObj(Put(<<>>, f.Field.Name, JObj(r2))), params |-> p2, err |-> ""]
      [] OTHER -> [v |-> NilVal, params |-> params, err |-> ErrUnsupportedFilter(f)]

pinecone_renderFilter(f, params) ==
    CASE f.type = "FilterCondition" ->
           [v |-> JObj(Put(<<>>, f.Field.Name,
                           JObj(Put(<<>>, pinecone_mapOperator(f.Operator),
                                    Placeholder(f.Value.Name))))),
            params |-> Append(params, f.Value.Name),
            err |-> ""]
      [] f.type = "FilterGroup" ->
           LET r == pinecone_renderConditions(f.Conditions, 1, <<>>, params)
           IN IF r.err # "" THEN r
              ELSE [v |-> JObj(Put(<<>>, pinecone_mapLogic(f.Logic), JArr(r.v))),
                    params |-> r.params,
                    err |-> ""]
      [] f.type = "RangeFilter" ->
           LET p1 == IF f.Min # NilVal THEN Append(params, f.Min.Name) ELSE params
               r1 == IF f.Min # NilVal
                     THEN Put(<<>>, IF f.MinExclusive THEN "$gt" ELSE "$gte",
                              Placeholder(f.Min.Name))
                     ELSE <<>>
               p2 == IF f.Max # NilVal THEN Append(p1, f.Max.Name) ELSE p1
               r2 == IF f.Max # NilVal
                     THEN Put(r1, IF f.MaxExclusive THEN "$lt" ELSE "$lte",
                              Placeholder(f.Max.Name))
                     ELSE r1
           IN [v |-> JObj(Put(<<>>, f.Field.Name, JObj(r2))), params |-> p2, err |-> ""]
      [] OTHER -> [v |-> NilVal, params |-> params, err |-> ErrUnsupportedFilter(f)]

\* the "Namespace" block shared by the Pinecone emitters
pinecone_namespace(a, query, params) ==
    IF a.Namespace # NilVal
    THEN [query |-> Put(query, "namespace", Placeholder(a.Namespace.Name)),
          params |-> Append(params, a.Namespace.Name)]
    ELSE [query |-> query, params |-> params]

pinecone_renderSearch(a, params) ==
    LET q0 == <<>>
        \* TopK
        q1 == IF a.TopK # NilVal /\ a.TopK.Static # NilVal
                  THEN Put(q0, "topK", JNum(a.TopK.Static.val))
              ELSE IF a.TopK # NilVal /\ a.TopK.Param # NilVal
                  THEN Put(q0, "topK", Placeholder(a.TopK.Param.Name))
              ELSE q0
        p1 == IF a.TopK # NilVal /\ a.TopK.Static = NilVal /\ a.TopK.Param # NilVal
                  THEN Append(params, a.TopK.Param.Name)
              ELSE params
        \* Include options
        q2 == Put(Put(q1, "includeValues", JBool(a.IncludeVectors)),
                  "includeMetadata", JBool(a.IncludeMetadata))
        \* Vector
        q3 == IF a.QueryVector = NilVal THEN q2
              ELSE IF a.QueryVector.Param # NilVal
                  THEN Put(q2, "vector", Placeholder(a.QueryVector.Param.Name))
              ELSE Put(q2, "vector", JFloats(a.QueryVector.Literal))
        p3 == IF a.QueryVector # NilVal /\ a.QueryVector.Param # NilVal
                  THEN Append(p1, a.QueryVector.Param.Name)
              ELSE p1
        \* Filter
        fr == IF a.FilterClause # NilVal THEN pinecone_renderFilter(a.FilterClause, p3)
              ELSE [v |-> NilVal, params |-> p3, err |-> ""]
        q4 == IF a.FilterClause # NilVal /\ fr.err = "" THEN Put(q3, "filter", fr.v) ELSE q3
        \* Namespace
        ns == pinecone_namespace(a, q4, fr.params)
    IN IF fr.err # "" THEN Stopped(fr.err, fr.params)
       ELSE toResult(ns.query, ns.params)

\* one iteration of the loop over ast.Vectors: the rendered record and the grown params
pinecone_upsertRecord(record, params, o) ==
    LET v0 == Put(<<>>, "id", Placeholder(record.ID.Name))
        p0 == Append(params, record.ID.Name)
        v1 == IF record.Vector.Param # NilVal
                  THEN Put(v0, "values", Placeholder(record.Vector.Param.Name))
              ELSE Put(v0, "values", JFloats(record.Vector.Literal))
        p1 == IF record.Vector.Param # NilVal
                  THEN Append(p0, record.Vector.Param.Name)
              ELSE p0
        ks == RangeOrder(record.Metadata, o)
        v2 == IF Len(ks) > 0
                  THEN Put(v1, "metadata", JObj(RangePut(<<>>, record.Metadata, ks, 1)))
              ELSE v1
        p2 == p1 \o RangeParams(record.Metadata, o)
        sv == record.SparseVector
        v3 == IF sv = NilVal THEN v2
              ELSE IF sv.Param # NilVal
                  THEN Put(v2, "sparseValues", Placeholder(sv.Param.Name))
              ELSE Put(v2, "sparseValues",
                       JObj(Put(Put(<<>>, "indices", JInts(sv.Indices)),
                                "values", JFloats(sv.Values))))
        p3 == IF sv # NilVal /\ sv.Param # NilVal THEN Append(p2, sv.Param.Name) ELSE p2
    IN [v |-> JObj(v3), params |-> p3]

\* the loop: iteration i renders item i and appends its names to params
pinecone_upsertRecords(records, params, orc) ==
    LET rs == [i \in 1..Len(records) |->
                  pinecone_upsertRecord(records[i], <<>>, LoopOrder(orc, i))]
    IN [v |-> [i \in 1..Len(records) |-> rs[i].v],
        params |-> params \o Appended([i \in 1..Len(records) |-> rs[i].params])]

pinecone_renderUpsert(a, params, orc) ==
    LET rs == pinecone_upsertRecords(a.Vectors, params, orc)
        ns == pinecone_namespace(a, Put(<<>>, "vectors", JArr(rs.v)), rs.params)
    IN toResult(ns.query, ns.params)

\* ids[i] = ":" + id.Name for every id, params growing by the names in order
IDPlaceholders(ids) == JArr([i \in 1..Len(ids) |-> Placeholder(ids[i].Name)])
IDNames(ids) == [i \in 1..Len(ids) |-> ids[i].Name]

\* a renderDelete that passes the IR's deleteAll flag on to the document
pinecone_renderDelete_PassesFlag(a, params) ==
    LET byIDs == Len(a.IDs) > 0
        byFilter == ~byIDs /\ a.FilterClause # NilVal /\ a.DeleteAll
        fr == IF byFilter THEN pinecone_renderFilter(a.FilterClause, params)
              ELSE [v |-> NilVal, params |-> params, err |-> ""]
        q1 == IF byIDs THEN Put(<<>>, "ids", IDPlaceholders(a.IDs))
              ELSE IF byFilter /\ fr.err = ""
                  THEN Put(Put(<<>>, "filter", fr.v), "deleteAll", JBool(a.DeleteAll))
              ELSE <<>>
        p1 == IF byIDs THEN params \o IDNames(a.IDs) ELSE fr.params
        ns == pinecone_namespace(a, q1, p1)
    IN IF fr.err # "" THEN Stopped(fr.err, fr.params)
       ELSE toResult(ns.query, ns.params)

pinecone_renderDelete(a, params) ==
    LET byIDs == Len(a.IDs) > 0
        byFilter == ~byIDs /\ a.FilterClause # NilVal /\ a.DeleteAll
        fr == IF byFilter THEN pinecone_renderFilter(a.FilterClause, params)
              ELSE [v |-> NilVal, params |-> params, err |-> ""]
        q1 == IF byIDs THEN Put(<<>>, "ids", IDPlaceholders(a.IDs))
              ELSE IF byFilter /\ fr.err = ""
                  THEN Put(Put(<<>>, "filter", fr.v), "deleteAll", JBool(FALSE))
              ELSE <<>>
        p1 == IF byIDs THEN params \o IDNames(a.IDs) ELSE fr.params
        ns == pinecone_namespace(a, q1, p1)
    IN IF fr.err # "" THEN Stopped(fr.err, fr.params)
       ELSE toResult(ns.query, ns.params)

\* s without the repetitions of its elements, each kept where it first stands
RECURSIVE Dedup(_)
Dedup(s) ==
    IF s = <<>> THEN <<>>
    ELSE LET front == Dedup(SubSeq(s, 1, Len(s) - 1))
             last == s[Len(s)]
         IN IF \E i \in DOMAIN front : front[i] = last THEN front ELSE Append(front, last)

\* a renderFetch whose accumulator is a set: every name once
pinecone_renderFetch_Dedup(a, params) ==
    LET ns == pinecone_namespace(a, Put(<<>>, "ids", IDPlaceholders(a.IDs)),
                                 Dedup(params \o IDNames(a.IDs)))
    IN toResult(ns.query, ns.params)

pinecone_renderFetch(a, params) ==
    LET ns == pinecone_namespace(a, Put(<<>>, "ids", IDPlaceholders(a.IDs)),
                                 params \o IDNames(a.IDs))
    IN toResult(ns.query, ns.params)

pinecone_renderUpdate(a, params, orc) ==
    IF Len(a.IDs) = 0 THEN Stopped(ErrUpdateNoIDs, params)
    ELSE LET q0 == Put(<<>>, "id", Placeholder(a.IDs[1].Name))
             p0 == Append(params, a.IDs[1].Name)
             ks == RangeOrder(a.Updates, LoopOrder(orc, 1))
             q1 == IF Len(ks) > 0
                       THEN Put(q0, "setMetadata", JObj(RangePut(<<>>, a.Updates, ks, 1)))
                   ELSE q0
             p1 == p0 \o RangeParams(a.Updates, LoopOrder(orc, 1))
             ns == pinecone_namespace(a, q1, p1)
         IN toResult(ns.query, ns.params)

ErrInvalidAST(e) == "invalid AST: " \o e

\* Render with DELETE dispatched to its emitter before validation
pinecone_Render_DeleteUnvalidated(a, orc) ==
    IF a.Operation = OpDelete THEN pinecone_renderDelete(a, <<>>)
    ELSE IF Validate(a) # "" THEN Stopped(ErrInvalidAST(Validate(a)), <<>>)
    ELSE CASE a.Operation = OpSearch -> pinecone_renderSearch(a, <<>>)
           [] a.Operation = OpUpsert -> pinecone_renderUpsert(a, <<>>, orc)
           [] a.Operation = OpFetch -> pinecone_renderFetch(a, <<>>)
           [] a.Operation = OpUpdate -> pinecone_renderUpdate(a, <<>>, orc)
           [] OTHER -> Stopped(ErrUnsupportedOp(a.Operation), <<>>)

pinecone_Render(a, orc) ==
    IF Validate(a) # "" THEN Stopped(ErrInvalidAST(Validate(a)), <<>>)
    ELSE CASE a.Operation = OpSearch -> pinecone_renderSearch(a, <<>>)
           [] a.Operation = OpUpsert -> pinecone_renderUpsert(a, <<>>, orc)
           [] a.Operation = OpDelete -> pinecone_renderDelete(a, <<>>)
           [] a.Operation = OpFetch -> pinecone_renderFetch(a, <<>>)
           [] a.Operation = OpUpdate -> pinecone_renderUpdate(a, <<>>, orc)
           [] OTHER -> Stopped(ErrUnsupportedOp(a.Operation), <<>>)

-----------------------------------------------------------------------------
(* Qdrant renderer, pkg/qdrant.  cfg is the Renderer struct. *)

condMust == "must"
condMustNot == "must_not"
condShould == "should"

qdrant_New == [DefaultVectorName |-> ""]

qdrant_mapConditionType(op) ==
    CASE op = OpNE -> condMustNot
      [] OTHER -> condMust

qdrant_mapLogic(logic) ==
    CASE logic = LogicAND -> condMust
      [] logic = LogicOR -> condShould
      [] logic = LogicNOT -> condMustNot
      [] OTHER -> condMust

qdrant_SupportsFilter(op) ==
    op \in {OpEQ, OpNE, OpGT, OpGE, OpLT, OpLE, OpIN, OpContains, OpExists, OpNotExists}

RECURSIVE qdrant_renderFilter(_, _)
RECURSIVE qdrant_renderConditions(_, _, _, _)

\* the loop over a group's children walking them from the last to the first
qdrant_renderConditions_Backwards(conds, i, conditions, params) ==
    IF i > Len(conds) THEN [v |-> conditions, params |-> params, err |-> ""]
    ELSE LET r == qdrant_renderFilter(conds[Len(conds) + 1 - i], params)
         IN IF r.err # "" THEN [v |-> NilVal, params |-> r.params, err |-> r.err]
            ELSE qdrant_renderConditions(conds, i + 1, <<r.v>> \o conditions, r.params)

qdrant_renderConditions(conds, i, conditions, params) ==
    IF i > Len(conds) THEN [v |-> conditions, params |-> params, err |-> ""]
    ELSE LET r == qdrant_renderFilter(conds[i], params)
         IN IF r.err # "" THEN [v |-> NilVal, params |-> r.params, err |-> r.err]
            ELSE qdrant_renderConditions(conds, i + 1, Append(conditions, r.v), r.params)

qdrant_renderFilter(f, params) ==
    CASE f.type = "FilterCondition" ->
           [v |-> JObj(Put(<<>>, qdrant_mapConditionType(f.Operator),
                           JArr(<<JObj(Put(Put(<<>>, "key", JStr(f.Field.Name)),
                                           "match",
                                           JObj(Put(<<>>, "value",
                                                    Placeholder(f.Value.Name)))))>>))),
            params |-> Append(params, f.Value.Name),
            err |-> ""]
      [] f.type = "FilterGroup" ->
           LET r == qdrant_renderConditions(f.Conditions, 1, <<>>, params)
           IN IF r.err # "" THEN r
              ELSE [v |-> JObj(Put(<<>>, qdrant_mapLogic(f.Logic), JArr(r.v))),
                    params |-> r.params,
                    err |-> ""]
      [] f.type = "RangeFilter" ->
           LET p1 == IF f.Min # NilVal THEN Append(params, f.Min.Name) ELSE params
               r1 == IF f.Min # NilVal
                     THEN Put(<<>>, IF f.MinExclusive THEN "gt" ELSE "gte",
                              Placeholder(f.Min.Name))
                     ELSE <<>>
               p2 == IF f.Max # NilVal THEN Append(p1, f.Max.Name) ELSE p1
               r2 == IF f.Max # NilVal
                     THEN Put(r1, IF f.MaxExclusive THEN "lt" ELSE "lte",
                              Placeholder(f.Max.Name))
                     ELSE r1
               rangeCondition == Put(Put(<<>>, "key", JStr(f.Field.Name)), "range", JObj(r2))
           IN [v |-> JObj(Put(<<>>, condMust, JArr(<<JObj(rangeCondition)>>))),
               params |-> p2,
               err |-> ""]
      [] f.type = "GeoFilter" ->
           LET center == Put(Put(<<>>, "lat", Placeholder(f.Center.Lat.Name)),
                             "lon", Placeholder(f.Center.Lon.Name))
               geo == Put(Put(<<>>, "center", JObj(center)),
                          "radius", Placeholder(f.Radius.Name))
               cond == Put(Put(<<>>, "key", JStr(f.Field.Name)), "geo_radius", JObj(geo))
           IN [v |-> JObj(Put(<<>>, condMust, JArr(<<JObj(cond)>>))),
               params |-> params \o <<f.Center.Lat.Name, f.Center.Lon.Name, f.Radius.Name>>,
               err |-> ""]
      [] OTHER -> [v |-> NilVal, params |-> params, err |-> ErrUnsupportedFilter(f)]

qdrant_renderSearch(cfg, a, params) ==
    LET \* Vector
        vq0 == IF a.QueryVector = NilVal THEN <<>>
               ELSE IF a.QueryVector.Param # NilVal
                   THEN Put(<<>>, "vector", Placeholder(a.QueryVector.Param.Name))
               ELSE Put(<<>>, "vector", JFloats(a.QueryVector.Literal))
        p1 == IF a.QueryVector # NilVal /\ a.QueryVector.Param # NilVal
                  THEN Append(params, a.QueryVector.Param.Name)
              ELSE params
        \* Named vector support
        vq1 == IF a.QueryEmbedding # NilVal /\ a.QueryEmbedding.Name # ""
                   THEN Put(vq0, "name", JStr(a.QueryEmbedding.Name))
               ELSE IF cfg.DefaultVectorName # ""
                   THEN Put(vq0, "name", JStr(cfg.DefaultVectorName))
               ELSE vq0
        q1 == Put(<<>>, "query", JObj(vq1))
        \* TopK (limit in Qdrant)
        q2 == IF a.TopK # NilVal /\ a.TopK.Static # NilVal
                  THEN Put(q1, "limit", JNum(a.TopK.Static.val))
              ELSE IF a.TopK # NilVal /\ a.TopK.Param # NilVal
                  THEN Put(q1, "limit", Placeholder(a.TopK.Param.Name))
              ELSE q1
        p2 == IF a.TopK # NilVal /\ a.TopK.Static = NilVal /\ a.TopK.Param # NilVal
                  THEN Append(p1, a.TopK.Param.Name)
              ELSE p1
        \* Score threshold
        q3 == IF a.MinScore # NilVal
                  THEN Put(q2, "score_threshold", Placeholder(a.MinScore.Name))
              ELSE q2
        p3 == IF a.MinScore # NilVal THEN Append(p2, a.MinScore.Name) ELSE p2
        \* With payload/vectors
        q4 == Put(Put(q3, "with_payload", JBool(a.IncludeMetadata)),
                  "with_vector", JBool(a.IncludeVectors))
        \* Filter
        fr == IF a.FilterClause # NilVal THEN qdrant_renderFilter(a.FilterClause, p3)
              ELSE [v |-> NilVal, params |-> p3, err |-> ""]
        q5 == IF a.FilterClause # NilVal /\ fr.err = "" THEN Put(q4, "filter", fr.v) ELSE q4
    IN IF fr.err # "" THEN Stopped(fr.err, fr.params)
       ELSE toResult(q5, fr.params)

qdrant_upsertRecord(record, params, o) ==
    LET v0 == Put(<<>>, "id", Placeholder(record.ID.Name))
        p0 == Append(params, record.ID.Name)
        v1 == IF record.Vector.Param # NilVal
                  THEN Put(v0, "vector", Placeholder(record.Vector.Param.Name))
              ELSE Put(v0, "vector", JFloats(record.Vector.Literal))
        p1 == IF record.Vector.Param # NilVal
                  THEN Append(p0, record.Vector.Param.Name)
              ELSE p0
        ks == RangeOrder(record.Metadata, o)
        v2 == IF Len(ks) > 0
                  THEN Put(v1, "payload", JObj(RangePut(<<>>, record.Metadata, ks, 1)))
              ELSE v1
        p2 == p1 \o RangeParams(record.Metadata, o)
    IN [v |-> JObj(v2), params |-> p2]

\* the loop: iteration i renders item i and appends its names to params
qdrant_upsertRecords(records, params, orc) ==
    LET rs == [i \in 1..Len(records) |->
                  qdrant_upsertRecord(records[i], <<>>, LoopOrder(orc, i))]
    IN [v |-> [i \in 1..Len(records) |-> rs[i].v],
        params |-> params \o Appended([i \in 1..Len(records) |-> rs[i].params])]

qdrant_renderUpsert(a, params, orc) ==
    LET rs == qdrant_upsertRecords(a.Vectors, params, orc)
    IN toResult(Put(<<>>, "points", JArr(rs.v)), rs.params)

qdrant_renderDelete(a, params) ==
    LET byIDs == Len(a.IDs) > 0
        byFilter == ~byIDs /\ a.FilterClause # NilVal /\ a.DeleteAll
        fr == IF byFilter THEN qdrant_renderFilter(a.FilterClause, params)
              ELSE [v |-> NilVal, params |-> params, err |-> ""]
        q1 == IF byIDs THEN Put(<<>>, "points", IDPlaceholders(a.IDs))
              ELSE IF byFilter /\ fr.err = "" THEN Put(<<>>, "filter", fr.v)
              ELSE <<>>
        p1 == IF byIDs THEN params \o IDNames(a.IDs) ELSE fr.params
    IN IF fr.err # "" THEN Stopped(fr.err, fr.params)
       ELSE toResult(q1, p1)

qdrant_renderFetch(a, params) ==
    toResult(Put(Put(Put(<<>>, "ids", IDPlaceholders(a.IDs)),
                     "with_payload", JBool(a.IncludeMetadata)),
                 "with_vector", JBool(a.IncludeVectors)),
             params \o IDNames(a.IDs))

qdrant_renderUpdate(a, params, orc) ==
    LET ks == RangeOrder(a.Updates, LoopOrder(orc, 1))
        payload == RangePut(<<>>, a.Updates, ks, 1)
    IN toResult(Put(Put(<<>>, "points", IDPlaceholders(a.IDs)), "payload", JObj(payload)),
                (params \o IDNames(a.IDs)) \o RangeParams(a.Updates, LoopOrder(orc, 1)))

qdrant_Render(cfg, a, orc) ==
    IF Validate(a) # "" THEN Stopped(ErrInvalidAST(Validate(a)), <<>>)
    ELSE CASE a.Operation = OpSearch -> qdrant_renderSearch(cfg, a, <<>>)
           [] a.Operation = OpUpsert -> qdrant_renderUpsert(a, <<>>, orc)
           [] a.Operation = OpDelete -> qdrant_renderDelete(a, <<>>)
           [] a.Operation = OpFetch -> qdrant_renderFetch(a, <<>>)
           [] a.Operation = OpUpdate -> qdrant_renderUpdate(a, <<>>, orc)
           [] OTHER -> Stopped(ErrUnsupportedOp(a.Operation), <<>>)

-----------------------------------------------------------------------------
(* Milvus renderer, pkg/milvus.  Filters are rendered to an expression string. *)

milvus_New == [DefaultVectorField |-> "embedding"]

milvus_mapOperator(op) ==
    CASE op = OpEQ -> "=="
      [] op = OpNE -> "!="
      [] op = OpGT -> ">"
      [] op = OpGE -> ">="
      [] op = OpLT -> "<"
      [] op = OpLE -> "<="
      [] op = OpIN -> "in"
      [] op = OpNotIn -> "not in"
      [] op = OpContains -> "like"
      [] OTHER -> "=="

milvus_SupportsFilter(op) ==
    op \in {OpEQ, OpNE, OpGT, OpGE, OpLT, OpLE, OpIN, OpNotIn, OpContains}

RECURSIVE milvus_renderFilter(_, _)
RECURSIVE milvus_renderConditions(_, _, _, _)

milvus_renderConditions(conds, i, parts, params) ==
    IF i > Len(conds) THEN [v |-> parts, params |-> params, err |-> ""]
    ELSE LET r == milvus_renderFilter(conds[i], params)
         IN IF r.err # "" THEN [v |-> "", params |-> r.params, err |-> r.err]
            ELSE milvus_renderConditions(conds, i + 1, Append(parts, r.v), r.params)

milvus_renderFilter(f, params) ==
    CASE f.type = "FilterCondition" ->
           [v |-> f.Field.Name \o " " \o milvus_mapOperator(f.Operator)
                     \o " :" \o f.Value.Name,
            params |-> Append(params, f.Value.Name),
            err |-> ""]
      [] f.type = "FilterGroup" /\ f.Logic = LogicNOT ->
           IF Len(f.Conditions) > 0
           THEN LET inner == milvus_renderFilter(f.Conditions[1], params)
                IN IF inner.err # "" THEN [v |-> "", params |-> inner.params, err |-> inner.err]
                   ELSE [v |-> "not (" \o inner.v \o ")", params |-> inner.params, err |-> ""]
           ELSE [v |-> "", params |-> params, err |-> ""]
      [] f.type = "FilterGroup" /\ f.Logic # LogicNOT ->
           LET r == milvus_renderConditions(f.Conditions, 1, <<>>, params)
               op == IF f.Logic = LogicOR THEN " or " ELSE " and "
           IN IF r.err # "" THEN r
              ELSE [v |-> "(" \o Join(r.v, op) \o ")", params |-> r.params, err |-> ""]
      [] f.type = "RangeFilter" ->
           LET p1 == IF f.Min # NilVal THEN Append(params, f.Min.Name) ELSE params
               parts1 == IF f.Min # NilVal
                         THEN <<f.Field.Name \o " "
                                  \o (IF f.MinExclusive THEN ">" ELSE ">=")
                                  \o " :" \o f.Min.Name>>
                         ELSE <<>>
               p2 == IF f.Max # NilVal THEN Append(p1, f.Max.Name) ELSE p1
               parts2 == IF f.Max # NilVal
                         THEN Append(parts1,
                                     f.Field.Name \o " "
                                       \o (IF f.MaxExclusive THEN "<" ELSE "<=")
                                       \o " :" \o f.Max.Name)
                         ELSE parts1
           IN [v |-> "(" \o Join(parts2, " and ") \o ")", params |-> p2, err |-> ""]
      [] OTHER -> [v |-> "", params |-> params, err |-> ErrUnsupportedFilter(f)]

\* fields[i] = f.Name over ast.MetadataFields
FieldNames(fields) == JArr([i \in 1..Len(fields) |-> JStr(fields[i].Name)])

\* fmt.Sprintf("id in [%s]", strings.Join(idExprs, ", "))
milvus_idExpr(ids) ==
    "id in [" \o Join([i \in 1..Len(ids) |-> ":" \o ids[i].Name], ", ") \o "]"

milvus_renderSearch(cfg, a, params) ==
    LET q0 == Put(<<>>, "collection_name", JStr(a.Target.Name))
        \* Vector field
        vectorField == IF a.QueryEmbedding # NilVal /\ a.QueryEmbedding.Name # ""
                       THEN a.QueryEmbedding.Name
                       ELSE cfg.DefaultVectorField
        q1 == Put(q0, "anns_field", JStr(vectorField))
        \* Vector data
        q2 == IF a.QueryVector = NilVal THEN q1
              ELSE IF a.QueryVector.Param # NilVal
                  THEN Put(q1, "data", Placeholder(a.QueryVector.Param.Name))
              ELSE Put(q1, "data", JArr(<<JFloats(a.QueryVector.Literal)>>))
        p2 == IF a.QueryVector # NilVal /\ a.QueryVector.Param # NilVal
                  THEN Append(params, a.QueryVector.Param.Name)
              ELSE params
        \* TopK
        q3 == IF a.TopK # NilVal /\ a.TopK.Static # NilVal
                  THEN Put(q2, "limit", JNum(a.TopK.Static.val))
              ELSE IF a.TopK # NilVal /\ a.TopK.Param # NilVal
                  THEN Put(q2, "limit", Placeholder(a.TopK.Param.Name))
              ELSE q2
        p3 == IF a.TopK # NilVal /\ a.TopK.Static = NilVal /\ a.TopK.Param # NilVal
                  THEN Append(p2, a.TopK.Param.Name)
              ELSE p2
        \* Output fields
        q4 == IF a.IncludeMetadata /\ Len(a.MetadataFields) > 0
                  THEN Put(q3, "output_fields", FieldNames(a.MetadataFields))
              ELSE q3
        \* Filter expression
        fr == IF a.FilterClause # NilVal THEN milvus_renderFilter(a.FilterClause, p3)
              ELSE [v |-> "", params |-> p3, err |-> ""]
        q5 == IF a.FilterClause # NilVal /\ fr.err = "" THEN Put(q4, "filter", JStr(fr.v)) ELSE q4
        \* Partition (namespace)
        q6 == IF a.Namespace # NilVal
                  THEN Put(q5, "partition_names", JArr(<<Placeholder(a.Namespace.Name)>>))
              ELSE q5
        p6 == IF a.Namespace # NilVal THEN Append(fr.params, a.Namespace.Name) ELSE fr.params
    IN IF fr.err # "" THEN Stopped(fr.err, fr.params)
       ELSE toResult(q6, p6)

\* the "Partition" block of upsert and delete
milvus_partition(a, query, params) ==
    IF a.Namespace # NilVal
    THEN [query |-> Put(query, "partition_name", Placeholder(a.Namespace.Name)),
          params |-> Append(params, a.Namespace.Name)]
    ELSE [query |-> query, params |-> params]

milvus_upsertRecord(cfg, record, params, o) ==
    LET r0 == Put(<<>>, "id", Placeholder(record.ID.Name))
        p0 == Append(params, record.ID.Name)
        vectorField == cfg.DefaultVectorField
        r1 == IF record.Vector.Param # NilVal
                  THEN Put(r0, vectorField, Placeholder(record.Vector.Param.Name))
              ELSE Put(r0, vectorField, JFloats(record.Vector.Literal))
        p1 == IF record.Vector.Param # NilVal
                  THEN Append(p0, record.Vector.Param.Name)
              ELSE p0
        \* Metadata goes into the row itself
        r2 == RangePut(r1, record.Metadata, RangeOrder(record.Metadata, o), 1)
        p2 == p1 \o RangeParams(record.Metadata, o)
    IN [v |-> JObj(r2), params |-> p2]

\* the loop: iteration i renders item i and appends its names to params
milvus_upsertRecords(cfg, records, params, orc) ==
    LET rs == [i \in 1..Len(records) |->
                  milvus_upsertRecord(cfg, records[i], <<>>, LoopOrder(orc, i))]
    IN [v |-> [i \in 1..Len(records) |-> rs[i].v],
        params |-> params \o Appended([i \in 1..Len(records) |-> rs[i].params])]

milvus_renderUpsert(cfg, a, params, orc) ==
    LET q0 == Put(<<>>, "collection_name", JStr(a.Target.Name))
        rs == milvus_upsertRecords(cfg, a.Vectors, params, orc)
        ns == milvus_partition(a, Put(q0, "data", JArr(rs.v)), rs.params)
    IN toResult(ns.query, ns.params)

milvus_renderDelete(a, params) ==
    LET q0 == Put(<<>>, "collection_name", JStr(a.Target.Name))
        byIDs == Len(a.IDs) > 0
        byFilter == ~byIDs /\ a.FilterClause # NilVal /\ a.DeleteAll
        fr == IF byFilter THEN milvus_renderFilter(a.FilterClause, params)
              ELSE [v |-> "", params |-> params, err |-> ""]
        q1 == IF byIDs THEN Put(q0, "filter", JStr(milvus_idExpr(a.IDs)))
              ELSE IF byFilter /\ fr.err = "" THEN Put(q0, "filter", JStr(fr.v))
              ELSE q0
        p1 == IF byIDs THEN params \o IDNames(a.IDs) ELSE fr.params
        ns == milvus_partition(a, q1, p1)
    IN IF fr.err # "" THEN Stopped(fr.err, fr.params)
       ELSE toResult(ns.query, ns.params)

milvus_renderFetch(a, params) ==
    LET q0 == Put(<<>>, "collection_name", JStr(a.Target.Name))
        q1 == Put(q0, "filter", JStr(milvus_idExpr(a.IDs)))
        p1 == params \o IDNames(a.IDs)
        \* Output fields
        q2 == IF a.IncludeMetadata /\ Len(a.MetadataFields) > 0
                  THEN Put(q1, "output_fields", FieldNames(a.MetadataFields))
              ELSE IF a.IncludeMetadata THEN Put(q1, "output_fields", JStrings(<<"*">>))
              ELSE q1
        \* Partition
        q3 == IF a.Namespace # NilVal
                  THEN Put(q2, "partition_names", JArr(<<Placeholder(a.Namespace.Name)>>))
              ELSE q2
        p3 == IF a.Namespace # NilVal THEN Append(p1, a.Namespace.Name) ELSE p1
    IN toResult(q3, p3)

\* one row of the update: the id, then every updated field
milvus_updateRow(a, id, params, o) ==
    [v |-> JObj(RangePut(Put(<<>>, "id", Placeholder(id.Name)),
                         a.Updates, RangeOrder(a.Updates, o), 1)),
     params |-> Append(params, id.Name) \o RangeParams(a.Updates, o)]

\* the loop: iteration i renders item i and appends its names to params
milvus_updateRows(a, params, orc) ==
    LET rs == [i \in 1..Len(a.IDs) |->
                  milvus_updateRow(a, a.IDs[i], <<>>, LoopOrder(orc, i))]
    IN [v |-> [i \in 1..Len(a.IDs) |-> rs[i].v],
        params |-> params \o Appended([i \in 1..Len(a.IDs) |-> rs[i].params])]

milvus_renderUpdate(a, params, orc) ==
    LET q0 == Put(<<>>, "collection_name", JStr(a.Target.Name))
        rs == milvus_updateRows(a, params, orc)
    IN toResult(Put(q0, "data", JArr(rs.v)), rs.params)

milvus_Render(cfg, a, orc) ==
    IF Validate(a) # "" THEN Stopped(ErrInvalidAST(Validate(a)), <<>>)
    ELSE CASE a.Operation = OpSearch -> milvus_renderSearch(cfg, a, <<>>)
           [] a.Operation = OpUpsert -> milvus_renderUpsert(cfg, a, <<>>, orc)
           [] a.Operation = OpDelete -> milvus_renderDelete(a, <<>>)
           [] a.Operation = OpFetch -> milvus_renderFetch(a, <<>>)
           [] a.Operation = OpUpdate -> milvus_renderUpdate(a, <<>>, orc)
           [] OTHER -> Stopped(ErrUnsupportedOp(a.Operation), <<>>)

-----------------------------------------------------------------------------
(* Weaviate renderer, pkg/weaviate *)

weaviate_mapOperator(op) ==
    CASE op = OpEQ -> "Equal"
      [] op = OpNE -> "NotEqual"
      [] op = OpGT -> "GreaterThan"
      [] op = OpGE -> "GreaterThanEqual"
      [] op = OpLT -> "LessThan"
      [] op = OpLE -> "LessThanEqual"
      [] op = OpContains -> "ContainsAny"
      [] op = OpExists -> "IsNull"
      [] OTHER -> "Equal"

weaviate_mapLogic(logic) ==
    CASE logic = LogicAND -> "And"
      [] logic = LogicOR -> "Or"
      [] logic = LogicNOT -> "Not"
      [] OTHER -> "And"

weaviate_SupportsFilter(op) ==
    op \in {OpEQ, OpNE, OpGT, OpGE, OpLT, OpLE, OpContains, OpExists}

\* the lower-case letters and, at the same index, what strings.ToUpper makes of them
LowerLetters ==
    <<"a", "b", "c", "d", "e", "f", "g", "h", "i", "j", "k", "l", "m", "n", "o",
      "p", "q", "r", "s", "t", "u", "v", "w", "x", "y", "z">>
UpperLetters ==
    <<"A", "B", "C", "D", "E", "F", "G", "H", "I", "J", "K", "L", "M", "N", "O",
      "P", "Q", "R", "S", "T", "U", "V", "W", "X", "Y", "Z">>

\* what follows the first letter in the collection names that begin with a lower-case
\* letter (a string is atomic here: a name is split by trying its known tails)
NameTails == {"roducts", "ocs", "tems", "y_collection"}

\* the collection names that begin with another character, which ToUpper leaves alone
CapitalNames == {"Products", "Docs", "Items", "My_collection", "_products", "1products"}

\* formatClassName: strings.ToUpper(name[:1]) + name[1:], the empty name as it is
formatClassName(name) ==
    CASE name = "" -> name
      [] \E i \in DOMAIN LowerLetters, rest \in NameTails : name = LowerLetters[i] \o rest ->
           LET i == CHOOSE i \in DOMAIN LowerLetters :
                        \E rest \in NameTails : name = LowerLetters[i] \o rest
               rest == CHOOSE rest \in NameTails : name = LowerLetters[i] \o rest
           IN UpperLetters[i] \o rest
      [] name \in CapitalNames -> name

RECURSIVE weaviate_renderFilter(_, _)
RECURSIVE weaviate_renderConditions(_, _, _, _)

weaviate_renderConditions(conds, i, operands, params) ==
    IF i > Len(conds) THEN [v |-> operands, params |-> params, err |-> ""]
    ELSE LET r == weaviate_renderFilter(conds[i], params)
         IN IF r.err # "" THEN [v |-> NilVal, params |-> r.params, err |-> r.err]
            ELSE weaviate_renderConditions(conds, i + 1, Append(operands, r.v), r.params)

\* {"path": [field], "operator": op, key: ":name"}
weaviate_clause(field, op, key, name) ==
    JObj(Put(Put(Put(<<>>, "path", JStrings(<<field.Name>>)), "operator", JStr(op)),
             key, Placeholder(name)))

weaviate_renderFilter(f, params) ==
    CASE f.type = "FilterCondition" ->
           [v |-> weaviate_clause(f.Field, weaviate_mapOperator(f.Operator),
                                  "valueString", f.Value.Name),
            params |-> Append(params, f.Value.Name),
            err |-> ""]
      [] f.type = "FilterGroup" ->
           LET r == weaviate_renderConditions(f.Conditions, 1, <<>>, params)
           IN IF r.err # "" THEN r
              ELSE [v |-> JObj(Put(Put(<<>>, "operator", JStr(weaviate_mapLogic(f.Logic))),
                                   "operands", JArr(r.v))),
                    params |-> r.params,
                    err |-> ""]
      [] f.type = "RangeFilter" ->
           LET p1 == IF f.Min # NilVal THEN Append(params, f.Min.Name) ELSE params
               o1 == IF f.Min # NilVal
                     THEN <<weaviate_clause(f.Field,
                                IF f.MinExclusive THEN "GreaterThan" ELSE "GreaterThanEqual",
                                "valueNumber", f.Min.Name)>>
                     ELSE <<>>
               p2 == IF f.Max # NilVal THEN Append(p1, f.Max.Name) ELSE p1
               o2 == IF f.Max # NilVal
                     THEN Append(o1, weaviate_clause(f.Field,
                                IF f.MaxExclusive THEN "LessThan" ELSE "LessThanEqual",
                                "valueNumber", f.Max.Name))
                     ELSE o1
           IN [v |-> IF Len(o2) = 1 THEN o2[1]
                     ELSE JObj(Put(Put(<<>>, "operator", JStr("And")), "operands", JArr(o2))),
               params |-> p2,
               err |-> ""]
      [] f.type = "GeoFilter" ->
           LET coords == Put(Put(<<>>, "latitude", Placeholder(f.Center.Lat.Name)),
                             "longitude", Placeholder(f.Center.Lon.Name))
               distance == Put(<<>>, "max", Placeholder(f.Radius.Name))
               geoRange == Put(Put(<<>>, "geoCoordinates", JObj(coords)),
                               "distance", JObj(distance))
           IN [v |-> JObj(Put(Put(Put(<<>>, "path", JStrings(<<f.Field.Name>>)),
                                  "operator", JStr("WithinGeoRange")),
                              "valueGeoRange", JObj(geoRange))),
               params |-> params \o <<f.Center.Lat.Name, f.Center.Lon.Name, f.Radius.Name>>,
               err |-> ""]
      [] OTHER -> [v |-> NilVal, params |-> params, err |-> ErrUnsupportedFilter(f)]

\* the "Tenant" block shared by the Weaviate emitters
weaviate_tenant(a, query, params) ==
    IF a.Namespace # NilVal
    THEN [query |-> Put(query, "tenant", Placeholder(a.Namespace.Name)),
          params |-> Append(params, a.Namespace.Name)]
    ELSE [query |-> query, params |-> params]

weaviate_renderSearch(a, params) ==
    LET q0 == Put(<<>>, "class", JStr(formatClassName(a.Target.Name)))
        \* Near vector
        nv0 == IF a.QueryVector = NilVal THEN <<>>
               ELSE IF a.QueryVector.Param # NilVal
                   THEN Put(<<>>, "vector", Placeholder(a.QueryVector.Param.Name))
               ELSE Put(<<>>, "vector", JFloats(a.QueryVector.Literal))
        p0 == IF a.QueryVector # NilVal /\ a.QueryVector.Param # NilVal
                  THEN Append(params, a.QueryVector.Param.Name)
              ELSE params
        \* Certainty threshold
        nv1 == IF a.MinScore # NilVal
                   THEN Put(nv0, "certainty", Placeholder(a.MinScore.Name))
               ELSE nv0
        p1 == IF a.MinScore # NilVal THEN Append(p0, a.MinScore.Name) ELSE p0
        \* Target vectors (named vectors)
        nv2 == IF a.QueryEmbedding # NilVal /\ a.QueryEmbedding.Name # ""
                   THEN Put(nv1, "targetVectors", JStrings(<<a.QueryEmbedding.Name>>))
               ELSE nv1
        q1 == Put(q0, "nearVector", JObj(nv2))
        \* Limit
        q2 == IF a.TopK # NilVal /\ a.TopK.Static # NilVal
                  THEN Put(q1, "limit", JNum(a.TopK.Static.val))
              ELSE IF a.TopK # NilVal /\ a.TopK.Param # NilVal
                  THEN Put(q1, "limit", Placeholder(a.TopK.Param.Name))
              ELSE q1
        p2 == IF a.TopK # NilVal /\ a.TopK.Static = NilVal /\ a.TopK.Param # NilVal
                  THEN Append(p1, a.TopK.Param.Name)
              ELSE p1
        \* Properties to return
        q3 == IF a.IncludeMetadata /\ Len(a.MetadataFields) > 0
                  THEN Put(q2, "properties", FieldNames(a.MetadataFields))
              ELSE q2
        \* Filter (where clause)
        fr == IF a.FilterClause # NilVal THEN weaviate_renderFilter(a.FilterClause, p2)
              ELSE [v |-> NilVal, params |-> p2, err |-> ""]
        q4 == IF a.FilterClause # NilVal /\ fr.err = "" THEN Put(q3, "where", fr.v) ELSE q3
        \* Tenant (namespace)
        ns == weaviate_tenant(a, q4, fr.params)
        \* Additional fields for vectors
        q5 == IF a.IncludeVectors
                  THEN Put(ns.query, "additional", JStrings(<<"vector", "distance", "certainty">>))
              ELSE Put(ns.query, "additional", JStrings(<<"distance", "certainty">>))
    IN IF fr.err # "" THEN Stopped(fr.err, fr.params)
       ELSE toResult(q5, ns.params)

weaviate_upsertRecord(className, record, params, o) ==
    LET o0 == Put(<<>>, "class", JStr(className))
        o1 == Put(o0, "id", Placeholder(record.ID.Name))
        p1 == Append(params, record.ID.Name)
        o2 == IF record.Vector.Param # NilVal
                  THEN Put(o1, "vector", Placeholder(record.Vector.Param.Name))
              ELSE Put(o1, "vector", JFloats(record.Vector.Literal))
        p2 == IF record.Vector.Param # NilVal
                  THEN Append(p1, record.Vector.Param.Name)
              ELSE p1
        ks == RangeOrder(record.Metadata, o)
        o3 == IF Len(ks) > 0
                  THEN Put(o2, "properties", JObj(RangePut(<<>>, record.Metadata, ks, 1)))
              ELSE o2
        p3 == p2 \o RangeParams(record.Metadata, o)
    IN [v |-> JObj(o3), params |-> p3]

\* the loop: iteration i renders item i and appends its names to params
weaviate_upsertRecords(className, records, params, orc) ==
    LET rs == [i \in 1..Len(records) |->
                  weaviate_upsertRecord(className, records[i], <<>>, LoopOrder(orc, i))]
    IN [v |-> [i \in 1..Len(records) |-> rs[i].v],
        params |-> params \o Appended([i \in 1..Len(records) |-> rs[i].params])]

weaviate_renderUpsert(a, params, orc) ==
    LET rs == weaviate_upsertRecords(formatClassName(a.Target.Name), a.Vectors, params, orc)
        ns == weaviate_tenant(a, Put(<<>>, "objects", JArr(rs.v)), rs.params)
    IN toResult(ns.query, ns.params)

weaviate_renderDelete(a, params) ==
    LET q0 == Put(<<>>, "class", JStr(formatClassName(a.Target.Name)))
        byIDs == Len(a.IDs) > 0
        byFilter == ~byIDs /\ a.FilterClause # NilVal /\ a.DeleteAll
        fr == IF byFilter THEN weaviate_renderFilter(a.FilterClause, params)
              ELSE [v |-> NilVal, params |-> params, err |-> ""]
        q1 == IF byIDs THEN Put(q0, "ids", IDPlaceholders(a.IDs))
              ELSE IF byFilter /\ fr.err = "" THEN Put(q0, "where", fr.v)
              ELSE q0
        p1 == IF byIDs THEN params \o IDNames(a.IDs) ELSE fr.params
        ns == weaviate_tenant(a, q1, p1)
    IN IF fr.err # "" THEN Stopped(fr.err, fr.params)
       ELSE toResult(ns.query, ns.params)

weaviate_renderFetch(a, params) ==
    LET q0 == Put(Put(<<>>, "class", JStr(formatClassName(a.Target.Name))),
                  "ids", IDPlaceholders(a.IDs))
        p0 == params \o IDNames(a.IDs)
        \* Properties
        q1 == IF a.IncludeMetadata /\ Len(a.MetadataFields) > 0
                  THEN Put(q0, "properties", FieldNames(a.MetadataFields))
              ELSE q0
        \* Additional
        q2 == IF a.IncludeVectors THEN Put(q1, "additional", JStrings(<<"vector">>)) ELSE q1
        ns == weaviate_tenant(a, q2, p0)
    IN toResult(ns.query, ns.params)

weaviate_renderUpdate(a, params, orc) ==
    IF Len(a.IDs) = 0 THEN Stopped(ErrUpdateNoIDs, params)
    ELSE LET p0 == Append(params, a.IDs[1].Name)
             ks == RangeOrder(a.Updates, LoopOrder(orc, 1))
             properties == RangePut(<<>>, a.Updates, ks, 1)
             p1 == p0 \o RangeParams(a.Updates, LoopOrder(orc, 1))
             q0 == Put(Put(Put(<<>>, "class", JStr(formatClassName(a.Target.Name))),
                           "id", Placeholder(a.IDs[1].Name)),
                       "properties", JObj(properties))
             ns == weaviate_tenant(a, q0, p1)
         IN toResult(ns.query, ns.params)

weaviate_Render(a, orc) ==
    IF Validate(a) # "" THEN Stopped(ErrInvalidAST(Validate(a)), <<>>)
    ELSE CASE a.Operation = OpSearch -> weaviate_renderSearch(a, <<>>)
           [] a.Operation = OpUpsert -> weaviate_renderUpsert(a, <<>>, orc)
           [] a.Operation = OpDelete -> weaviate_renderDelete(a, <<>>)
           [] a.Operation = OpFetch -> weaviate_renderFetch(a, <<>>)
           [] a.Operation = OpUpdate -> weaviate_renderUpdate(a, <<>>, orc)
           [] OTHER -> Stopped(ErrUnsupportedOp(a.Operation), <<>>)

-----------------------------------------------------------------------------
(* The vectql.Renderer interface over the four providers *)

Renderers == {"pinecone", "qdrant", "milvus", "weaviate"}

\* the Render method of renderer r: what the caller receives, (*QueryResult, error),
\* and on an error the accumulator of the call as well
Render(r, a, orc) ==
    CASE r = "pinecone" -> pinecone_Render(a, orc)
      [] r = "qdrant" -> qdrant_Render(qdrant_New, a, orc)
      [] r = "milvus" -> milvus_Render(milvus_New, a, orc)
      [] r = "weaviate" -> weaviate_Render(a, orc)

SupportsFilter(r, op) ==
    CASE r = "pinecone" -> pinecone_SupportsFilter(op)
      [] r = "qdrant" -> qdrant_SupportsFilter(op)
      [] r = "milvus" -> milvus_SupportsFilter(op)
      [] r = "weaviate" -> weaviate_SupportsFilter(op)

-----------------------------------------------------------------------------
(* The inputs of the model *)

\* nested groups in the deepest filter the model builds
MaxNesting == 7
\* Filter calls sent to a SEARCH builder that receives nothing but its query and filters
MaxFilterCalls == 7
\* Filter calls and AddVector calls sent to a builder that receives every method
MaxBuilderFilters == 2
MaxAddCalls == 2

Targets == {"", "products"}

Perms(S) ==
    {s \in [1..Cardinality(S) -> S] : \A i, k \in 1..Cardinality(S) : i # k => s[i] # s[k]}

\* the maps the range loops of one Render call visit, loop by loop: UPSERT ranges over
\* the Metadata of each record in turn, UPDATE over ast.Updates (Milvus once for every
\* id, the other dialects once)
LoopMaps(a) ==
    IF a.Operation = OpUpsert THEN [i \in 1..Len(a.Vectors) |-> a.Vectors[i].Metadata]
    ELSE IF a.Operation = OpUpdate
         THEN [i \in 1..(IF Len(a.IDs) = 0 THEN 1 ELSE Len(a.IDs)) |-> a.Updates]
    ELSE <<>>

\* the orders the runtime may draw for the range loops of one Render call: for every
\* loop, independently, an order of the keys of the map it visits. Only a map of two
\* keys or more leaves a choice.
OraclesFor(a) ==
    LET maps == LoopMaps(a)
        open == {i \in DOMAIN maps : Cardinality(DOMAIN maps[i]) > 1}
        orders == UNION {Perms(DOMAIN maps[i]) : i \in open}
        draws == {d \in [open -> orders] : \A i \in open : d[i] \in Perms(DOMAIN maps[i])}
    IN {[i \in DOMAIN maps |->
            IF i \in open THEN d[i] ELSE CHOOSE o \in Perms(DOMAIN maps[i]) : TRUE] :
        d \in draws}

LeafActive == F(M("active"), OpEQ, P("active"))
LeafPrice == F(M("price"), OpGT, P("min_price"))
LeafCategory == F(M("category"), OpEQ, P("category"))
LeafGeo == Geo(M("location"), P("lat"), P("lon"), P("radius"))

\* FilterCondition leaves, one per operator
OperatorLeaves ==
    {F(M("category"), op, P("v")) : op \in FilterOperators \ {OpExists, OpNotExists}}
        \cup {ExistsF(M("category")), NotExistsF(M("category"))}

RangeLeaves ==
    {RangeFilter(M("price"), lo, hi, minEx, maxEx) :
        lo \in {NilVal, P("lo")}, hi \in {NilVal, P("hi")},
        minEx \in BOOLEAN, maxEx \in BOOLEAN}

Leaves == {LeafActive, LeafPrice, LeafCategory, LeafGeo} \cup OperatorLeaves \cup RangeLeaves

\* the children lists of the small groups
SmallLeaves == {LeafActive, LeafPrice, Range(M("price"), P("lo"), P("hi"))}
ChildLists ==
    {<<>>} \cup {<<x>> : x \in SmallLeaves} \cup {<<x, y>> : x, y \in SmallLeaves}

SmallGroups == {Group(logic, cs) : logic \in {LogicAND, LogicOR, LogicNOT}, cs \in ChildLists}

\* the filter of the documented scenario: AND(EQ(active), OR(GT(min_price), EQ(category)))
ScenarioFilter == And(<<LeafActive, Or(<<LeafPrice, LeafCategory>>)>>)

\* k groups nested in one another around inner (inner itself when k = 0)
RECURSIVE Nested(_, _)
Nested(k, inner) == IF k = 0 THEN inner ELSE And(<<Nested(k - 1, inner)>>)

\* k nested groups, the innermost one empty
NestedEmpty(k) == Nested(k - 1, And(<<>>))

DeepFilters ==
    {Nested(k, LeafActive) : k \in 1..MaxNesting}
        \cup {NestedEmpty(k) : k \in 1..MaxNesting}
        \cup {And(<<LeafPrice, Nested(k - 1, LeafActive)>>) : k \in (MaxNesting - 2)..MaxNesting}
        \cup {Or(<<NestedEmpty(k - 1), LeafPrice>>) : k \in (MaxNesting - 2)..MaxNesting}
        \cup {Nested(k, LeafGeo) : k \in 1..2}

Filters == Leaves \cup SmallGroups \cup DeepFilters \cup {ScenarioFilter, Not(LeafGeo)}

\* the filters of the IRs that vary other fields as well
FewFilters ==
    {NilVal, LeafActive, LeafGeo, ScenarioFilter, Range(M("price"), P("lo"), NilVal),
     Nested(MaxFilterDepth, LeafActive), Nested(MaxFilterDepth + 1, LeafActive),
     NestedEmpty(MaxFilterDepth + 1), NestedEmpty(MaxFilterDepth + 2)}

IDLists ==
    {<<>>, <<P("id1")>>, <<P("id1"), P("id2")>>, <<P("id2"), P("id1"), P("id2")>>,
     Repeat(P("id"), MaxIDsPerFetch), Repeat(P("id"), MaxIDsPerFetch + 1)}

FieldLists ==
    {<<>>, <<M("category"), M("price")>>,
     Repeat(M("category"), MaxMetadataFields), Repeat(M("category"), MaxMetadataFields + 1)}

TopKs ==
    {NilVal, StaticK(10), StaticK(0), StaticK(-1), StaticK(MaxTopK), StaticK(MaxTopK + 1),
     ParamK(P("k")), [Static |-> NilVal, Param |-> NilVal]}

QueryVectors ==
    {NilVal, Vec(P("query_vec")), VecLiteral(Slice(<<Fl(1), Fl(2)>>)), VecLiteral(Slice(<<NaN>>)),
     VecLiteral(Slice(<<>>)), VecLiteral(NilVal)}

MetadataMaps ==
    {<<>>, (M("category") :> P("cat")),
     (M("category") :> P("cat")) @@ (M("price") :> P("amount"))}

RecPlain == Record(P("id"), Vec(P("vec")), <<>>, NilVal)
RecFull ==
    Record(P("id1"), Vec(P("vec1")),
           (M("category") :> P("cat")) @@ (M("price") :> P("amount")),
           SparseVec(P("sparse1")))
RecLiteral ==
    Record(P("id2"), VecLiteral(Slice(<<Fl(1), Fl(2)>>)), (M("category") :> P("cat2")),
           SparseVecLiteral(Slice(<<0, 3>>), Slice(<<Fl(1), Fl(2)>>)))
RecMeta == Record(P("id3"), Vec(P("vec3")),
                  (M("category") :> P("cat3")) @@ (M("price") :> P("amount3")), NilVal)

Records == {RecPlain, RecFull, RecLiteral, RecMeta}

\* records whose literals are the empty slice, and the nil slice
RecEmpty ==
    Record(P("id5"), VecLiteral(Slice(<<>>)), <<>>, SparseVecLiteral(Slice(<<>>), Slice(<<>>)))
RecNil == Record(P("id6"), VecLiteral(NilVal), <<>>, SparseVecLiteral(NilVal, NilVal))

\* a record with a metadata field named as the column of the record's id
RecShadow == Record(P("id4"), Vec(P("vec4")), (M("id") :> P("other")), NilVal)

RecordLists ==
    {<<>>} \cup {<<x>> : x \in Records} \cup {<<x, y>> : x, y \in Records}
        \cup {Repeat(RecPlain, MaxBatchSize), Repeat(RecPlain, MaxBatchSize + 1)}
        \cup {<<RecShadow>>, <<RecEmpty>>, <<RecNil>>}

Namespaces == {NilVal, P("ns")}

\* SEARCH: the fields the validator reads, in every combination
SearchValidation ==
    {[EmptyAST(OpSearch, t) EXCEPT !.QueryVector = qv, !.TopK = k,
                                   !.MetadataFields = fs, !.FilterClause = f] :
        t \in Targets, qv \in {NilVal, Vec(P("query_vec"))}, k \in TopKs,
        fs \in FieldLists \ {<<M("category"), M("price")>>},
        f \in {NilVal, Nested(MaxFilterDepth, LeafActive), Nested(MaxFilterDepth + 1, LeafActive)}}

\* SEARCH: every filter of the model
SearchFilters ==
    {[EmptyAST(OpSearch, "products") EXCEPT !.QueryVector = Vec(P("query_vec")),
                                            !.TopK = StaticK(10),
                                            !.IncludeMetadata = TRUE,
                                            !.FilterClause = f, !.Namespace = ns] :
        f \in Filters, ns \in Namespaces}

\* SEARCH: the options the emitters read
SearchOptions ==
    {[EmptyAST(OpSearch, "products") EXCEPT !.QueryVector = qv, !.TopK = k,
                                            !.MinScore = ms, !.QueryEmbedding = e,
                                            !.IncludeVectors = iv, !.IncludeMetadata = im,
                                            !.MetadataFields = fs, !.Namespace = ns,
                                            !.FilterClause = f] :
        qv \in QueryVectors \ {NilVal}, k \in {StaticK(10), ParamK(P("k"))},
        ms \in {NilVal, P("min_score")},
        e \in {NilVal, [Name |-> "dense", Collection |-> "products"]},
        iv \in BOOLEAN, im \in BOOLEAN,
        fs \in {<<>>, <<M("category"), M("price")>>}, ns \in Namespaces,
        f \in {NilVal, LeafActive}}

UpsertASTs ==
    {[EmptyAST(OpUpsert, t) EXCEPT !.Vectors = vs, !.Namespace = ns] :
        t \in Targets, vs \in RecordLists, ns \in Namespaces}

DeleteASTs ==
    {[EmptyAST(OpDelete, t) EXCEPT !.IDs = ids, !.FilterClause = f,
                                   !.DeleteAll = da, !.Namespace = ns] :
        t \in Targets, ids \in IDLists, f \in FewFilters, da \in BOOLEAN, ns \in Namespaces}

FetchASTs ==
    {[EmptyAST(OpFetch, t) EXCEPT !.IDs = ids, !.IncludeMetadata = im, !.IncludeVectors = iv,
                                  !.MetadataFields = fs, !.Namespace = ns] :
        t \in Targets, ids \in IDLists, im \in BOOLEAN, iv \in BOOLEAN,
        fs \in {<<>>, <<M("category"), M("price")>>}, ns \in Namespaces}

\* the lists of a thousand ids come with updates of one key at most: every id is a
\* range loop of its own on Milvus, and each loop over two keys doubles the outcomes
UpdateInputs ==
    {u \in IDLists \X MetadataMaps : Len(u[1]) < MaxIDsPerFetch \/ Cardinality(DOMAIN u[2]) <= 1}

UpdateASTs ==
    {[EmptyAST(OpUpdate, t) EXCEPT !.IDs = u[1], !.Updates = u[2], !.Namespace = ns] :
        t \in Targets, u \in UpdateInputs, ns \in Namespaces}

\* an operation outside the five
OtherASTs ==
    {[EmptyAST("MERGE", t) EXCEPT !.IDs = ids] : t \in Targets, ids \in {<<>>, <<P("id1")>>}}

ASTs ==
    SearchValidation \cup SearchFilters \cup SearchOptions \cup UpsertASTs \cup DeleteASTs
        \cup FetchASTs \cup UpdateASTs \cup OtherASTs

-----------------------------------------------------------------------------
(* The builder, builder.go *)

Search(c) == [EmptyAST(OpSearch, c) EXCEPT !.IncludeMetadata = TRUE]
Upsert(c) == EmptyAST(OpUpsert, c)
Delete(c) == EmptyAST(OpDelete, c)
Fetch(c) == [EmptyAST(OpFetch, c) EXCEPT !.IncludeMetadata = TRUE, !.IncludeVectors = TRUE]
Update(c) == EmptyAST(OpUpdate, c)

\* what a call returns: the call, the renderer it used, its result and its error
Returned(call, r, result, e) == [call |-> call, renderer |-> r, result |-> result, err |-> e]
NoCall == Returned("", "", NilVal, "")
Chained == Returned("chain", "", NilVal, "")

\* a setter returns the builder: it either changes the AST or records an error
SetAST(a) == /\ ast' = a
             /\ ret' = Chained
             /\ UNCHANGED <<origin, err>>
SetErr(e) == /\ err' = e
             /\ ret' = Chained
             /\ UNCHANGED <<origin, ast>>

\* `if b.err != nil { return b }`: a setter leaves a builder that holds an error alone
Skipped == /\ ret' = Chained
           /\ UNCHANGED <<origin, ast, err>>

\* the builder's Filter and AddVector calls are counted, a history of the run and no
\* field of the Builder: a call on a builder that holds an error is not counted
Counted(kind) == /\ origin = "builder"
                 /\ calls' = IF err # "" THEN calls ELSE [calls EXCEPT ![kind] = @ + 1]
                 /\ UNCHANGED threads

Vector(v) ==
    /\ origin = "builder"
    /\ UNCHANGED <<calls, threads>>
    /\ IF err # "" THEN Skipped
       ELSE IF ast.Operation # OpSearch THEN SetErr("Vector() can only be used with SEARCH")
            ELSE SetAST([ast EXCEPT !.QueryVector = v])

Embedding(e) ==
    /\ origin = "builder"
    /\ UNCHANGED <<calls, threads>>
    /\ IF err # "" THEN Skipped
       ELSE IF ast.Operation # OpSearch THEN SetErr("Embedding() can only be used with SEARCH")
            ELSE SetAST([ast EXCEPT !.QueryEmbedding = e])

TopK(k) ==
    /\ origin = "builder"
    /\ UNCHANGED <<calls, threads>>
    /\ IF err # "" THEN Skipped
       ELSE IF ast.Operation # OpSearch THEN SetErr("TopK() can only be used with SEARCH")
            ELSE IF k > MaxTopK
                 THEN SetErr("topK exceeds maximum: " \o ToString(k) \o " > " \o ToString(MaxTopK))
            ELSE IF k <= 0 THEN SetErr("topK must be positive: " \o ToString(k))
            ELSE SetAST([ast EXCEPT !.TopK = StaticK(k)])

TopKParam(p) ==
    /\ origin = "builder"
    /\ UNCHANGED <<calls, threads>>
    /\ IF err # "" THEN Skipped
       ELSE IF ast.Operation # OpSearch THEN SetErr("TopKParam() can only be used with SEARCH")
            ELSE SetAST([ast EXCEPT !.TopK = ParamK(p)])

MinScore(p) ==
    /\ origin = "builder"
    /\ UNCHANGED <<calls, threads>>
    /\ IF err # "" THEN Skipped
       ELSE IF ast.Operation # OpSearch THEN SetErr("MinScore() can only be used with SEARCH")
            ELSE SetAST([ast EXCEPT !.MinScore = p])

IncludeVectors(include) ==
    /\ origin = "builder"
    /\ UNCHANGED <<calls, threads>>
    /\ IF err # "" THEN Skipped
       ELSE SetAST([ast EXCEPT !.IncludeVectors = include])

IncludeMetadata(include) ==
    /\ origin = "builder"
    /\ UNCHANGED <<calls, threads>>
    /\ IF err # "" THEN Skipped
       ELSE SetAST([ast EXCEPT !.IncludeMetadata = include])

\* Filter without its `if b.err != nil { return b }` guard
Filter_IgnoresErr(f) ==
    /\ Counted("filter")
    /\ IF ast.FilterClause = NilVal THEN SetAST([ast EXCEPT !.FilterClause = f])
       ELSE SetAST([ast EXCEPT !.FilterClause = Group(LogicAND, <<ast.FilterClause, f>>)])

\* a Filter that extends the AND group it made instead of nesting it
Filter_Flattens(f) ==
    /\ Counted("filter")
    /\ IF err # "" THEN Skipped
       ELSE IF ast.FilterClause = NilVal THEN SetAST([ast EXCEPT !.FilterClause = f])
       ELSE IF ast.FilterClause.type = "FilterGroup"
            THEN SetAST([ast EXCEPT !.FilterClause.Conditions = Append(@, f)])
            ELSE SetAST([ast EXCEPT !.FilterClause = Group(LogicAND, <<ast.FilterClause, f>>)])

Filter(f) ==
    /\ Counted("filter")
    /\ IF err # "" THEN Skipped
       ELSE IF ast.FilterClause = NilVal THEN SetAST([ast EXCEPT !.FilterClause = f])
            ELSE SetAST([ast EXCEPT !.FilterClause = Group(LogicAND, <<ast.FilterClause, f>>)])

Where(f) == Filter(f)

SelectMetadata(fields) ==
    /\ origin = "builder"
    /\ UNCHANGED <<calls, threads>>
    /\ IF err # "" THEN Skipped
       ELSE SetAST([ast EXCEPT !.MetadataFields = fields])

Namespace(ns) ==
    /\ origin = "builder"
    /\ UNCHANGED <<calls, threads>>
    /\ IF err # "" THEN Skipped
       ELSE SetAST([ast EXCEPT !.Namespace = ns])

\* AddVector without its batch-size check
AddVector_NoLimit(record) ==
    /\ Counted("add")
    /\ IF err # "" THEN Skipped
       ELSE IF ast.Operation # OpUpsert THEN SetErr("AddVector() can only be used with UPSERT")
            ELSE SetAST([ast EXCEPT !.Vectors = Append(@, record)])

AddVector(record) ==
    /\ Counted("add")
    /\ IF err # "" THEN Skipped
       ELSE IF ast.Operation # OpUpsert THEN SetErr("AddVector() can only be used with UPSERT")
            ELSE IF Len(ast.Vectors) >= MaxBatchSize
                 THEN SetErr("batch size exceeds maximum: " \o ToString(MaxBatchSize))
            ELSE SetAST([ast EXCEPT !.Vectors = Append(@, record)])

Vectors(records) ==
    /\ origin = "builder"
    /\ UNCHANGED <<calls, threads>>
    /\ IF err # "" THEN Skipped
       ELSE IF ast.Operation # OpUpsert THEN SetErr("Vectors() can only be used with UPSERT")
            ELSE IF Len(records) > MaxBatchSize
                 THEN SetErr("batch size exceeds maximum: " \o ToString(Len(records)) \o " > "
                                 \o ToString(MaxBatchSize))
            ELSE SetAST([ast EXCEPT !.Vectors = records])

Set(field, value) ==
    /\ origin = "builder"
    /\ UNCHANGED <<calls, threads>>
    /\ IF err # "" THEN Skipped
       ELSE IF ast.Operation # OpUpdate THEN SetErr("Set() can only be used with UPDATE")
            ELSE SetAST([ast EXCEPT !.Updates = Put(@, field, value)])

IDs(ids) ==
    /\ origin = "builder"
    /\ UNCHANGED <<calls, threads>>
    /\ IF err # "" THEN Skipped
       ELSE IF ast.Operation \notin {OpDelete, OpFetch, OpUpdate}
            THEN SetErr("IDs() can only be used with DELETE, FETCH, or UPDATE")
            ELSE IF Len(ids) > MaxIDsPerFetch
                 THEN SetErr("too many IDs: " \o ToString(Len(ids)) \o " > "
                                 \o ToString(MaxIDsPerFetch))
            ELSE SetAST([ast EXCEPT !.IDs = ids])

DeleteAll ==
    /\ origin = "builder"
    /\ UNCHANGED <<calls, threads>>
    /\ IF err # "" THEN Skipped
       ELSE IF ast.Operation # OpDelete THEN SetErr("DeleteAll() can only be used with DELETE")
            ELSE SetAST([ast EXCEPT !.DeleteAll = TRUE])

\* Build: the recorded error, else the validator's error, else the AST
BuildResult ==
    IF err # "" THEN Failed(err)
    ELSE IF Validate(ast) # "" THEN Failed(Validate(ast))
    ELSE [result |-> ast, err |-> ""]

Build ==
    /\ origin = "builder"
    /\ ret' = Returned("Build", "", BuildResult.result, BuildResult.err)
    /\ UNCHANGED <<origin, ast, err, calls, threads>>

\* Build returns b.ast, the pointer the builder holds, and not a copy: the AST a
\* caller received from a successful Build is the one the builder's methods write
BuiltAST == ast

\* Builder.Render: Build, then the renderer on the AST Build returned
BuilderRender(r) ==
    /\ origin = "builder"
    /\ IF BuildResult.err # ""
       THEN ret' = Returned("Render", r, NilVal, BuildResult.err)
       ELSE \E orc \in OraclesFor(ast) :
               LET res == Render(r, BuildResult.result, orc)
               IN ret' = Returned("Render", r, res.result, res.err)
    /\ UNCHANGED <<origin, ast, err, calls, threads>>

-----------------------------------------------------------------------------
(* Calls on an AST the caller assembled itself *)

ValidateCall ==
    /\ origin = "caller"
    /\ ret' = Returned("Validate", "", NilVal, Validate(ast))
    /\ UNCHANGED <<origin, ast, err, calls, threads>>

RenderCall(r) ==
    /\ origin = "caller"
    /\ \E orc \in OraclesFor(ast) :
        LET res == Render(r, ast, orc)
        IN ret' = Returned("Render", r, res.result, res.err)
    /\ UNCHANGED <<origin, ast, err, calls, threads>>

-----------------------------------------------------------------------------
(* The state machine *)

\* the arguments the builder's callers pass
BuilderTargets == {"products"}
BuilderVectors == {Vec(P("query_vec"))}
BuilderTopKs == {10, 0, MaxTopK + 1}
BuilderFilters == {LeafActive}
BuilderRecords == {RecPlain}
BuilderBatches ==
    {<<RecFull>>, Repeat(RecPlain, MaxBatchSize - 1), Repeat(RecPlain, MaxBatchSize + 1)}
BuilderIDs == {<<P("id1")>>, <<P("id1"), P("id2")>>, Repeat(P("id"), MaxIDsPerFetch + 1)}
BuilderUpdates == {<<M("category"), P("cat")>>, <<M("price"), P("amount")>>}

\* an AST the caller assembled, handed to Validate and to the renderers
Init ==
    /\ origin = "caller"
    /\ ast \in ASTs
    /\ err = ""
    /\ calls = [filter |-> 0, add |-> 0]
    /\ ret = NoCall
    /\ threads = <<>>

Next ==
    \/ ValidateCall
    \/ \E r \in Renderers : RenderCall(r)

Spec == Init /\ [][Next]_vars

\* a builder fresh from one of the five constructors
BuilderInit ==
    /\ origin = "builder"
    /\ \E c \in BuilderTargets : ast \in {Search(c), Upsert(c), Delete(c), Fetch(c), Update(c)}
    /\ err = ""
    /\ calls = [filter |-> 0, add |-> 0]
    /\ ret = NoCall
    /\ threads = <<>>

BuilderNext ==
    \/ \E v \in BuilderVectors : Vector(v)
    \/ Embedding([Name |-> "dense", Collection |-> "products"])
    \/ \E k \in BuilderTopKs : TopK(k)
    \/ TopKParam(P("k"))
    \/ MinScore(P("min_score"))
    \/ IncludeVectors(TRUE)
    \/ IncludeMetadata(FALSE)
    \/ \E f \in BuilderFilters : calls.filter < MaxBuilderFilters /\ Filter(f)
    \/ \E f \in BuilderFilters : calls.filter < MaxBuilderFilters /\ Where(f)
    \/ SelectMetadata(<<M("category"), M("price")>>)
    \/ Namespace(P("ns"))
    \/ \E record \in BuilderRecords : calls.add < MaxAddCalls /\ AddVector(record)
    \/ \E records \in BuilderBatches : Vectors(records)
    \/ \E u \in BuilderUpdates : Set(u[1], u[2])
    \/ \E ids \in BuilderIDs : IDs(ids)
    \/ DeleteAll
    \/ Build
    \/ \E r \in Renderers : BuilderRender(r)

BuilderSpec == BuilderInit /\ [][BuilderNext]_vars

\* a SEARCH builder that receives its query and one filter after the other
ChainInit ==
    /\ BuilderInit
    /\ ast.Operation = OpSearch

ChainNext ==
    \/ \E v \in BuilderVectors : Vector(v)
    \/ \E k \in BuilderTopKs : TopK(k)
    \/ \E f \in BuilderFilters : calls.filter < MaxFilterCalls /\ Filter(f)
    \/ \E f \in BuilderFilters : calls.filter < MaxFilterCalls /\ Where(f)
    \/ Build
    \/ \E r \in Renderers : BuilderRender(r)

ChainSpec == ChainInit /\ [][ChainNext]_vars

\* an UPSERT builder that receives its records one at a time, as many as the caller
\* sends: the builder's own batch limit ends the run
BatchInit ==
    /\ BuilderInit
    /\ ast.Operation = OpUpsert

BatchNext ==
    \/ \E record \in BuilderRecords : AddVector(record)
    \/ Build
    \/ \E r \in Renderers : BuilderRender(r)

BatchSpec == BatchInit /\ [][BatchNext]_vars

\* UPSERT, assembled by hand or through the builder
UpsertInit == (Init \/ BuilderInit) /\ ast.Operation = OpUpsert
UpsertNext == Next \/ BuilderNext
UpsertSpec == UpsertInit /\ [][UpsertNext]_vars

\* ---- range filters, from the package functions and from a schema-bound instance ----

\* the metadata fields of the instance's schema (VECTQL.metadata), by collection
Schema == [products |-> {"price", "category"}]

\* how many range filters one builder receives
MaxRangeCalls == 2

ErrNoCollection == "metadata field has no collection context"
ErrRangeBounds == "range requires at least min or max"

\* the checks the instance's filter constructors share: the field belongs to the schema
checkField(field) ==
    IF field.Collection = "" THEN ErrNoCollection
    ELSE IF field.Collection \notin DOMAIN Schema
         THEN "collection '" \o field.Collection \o "' not found"
    ELSE IF field.Name \notin Schema[field.Collection]
         THEN "metadata field '" \o field.Name \o "' not found in collection '"
                  \o field.Collection \o "'"
    ELSE ""

\* VECTQL.TryRange: the schema checks, then at least one bound
TryRange(field, minVal, maxVal) ==
    IF checkField(field) # "" THEN Failed(checkField(field))
    ELSE IF minVal = NilVal /\ maxVal = NilVal THEN Failed(ErrRangeBounds)
    ELSE [result |-> RangeFilter(field, minVal, maxVal, FALSE, FALSE), err |-> ""]

TryRangeExclusive(field, minVal, maxVal) ==
    IF checkField(field) # "" THEN Failed(checkField(field))
    ELSE IF minVal = NilVal /\ maxVal = NilVal THEN Failed(ErrRangeBounds)
    ELSE [result |-> RangeFilter(field, minVal, maxVal, TRUE, TRUE), err |-> ""]

RangeFields == {M("price"), [Name |-> "price", Collection |-> ""], M("colour")}
RangeMins == {NilVal, P("lo")}
RangeMaxs == {NilVal, P("hi")}

\* b.Filter(vectql.Range(field, min, max)): the package function returns its filter
\* whatever the bounds
FilterRange(field, minVal, maxVal) ==
    /\ calls.filter < MaxRangeCalls
    /\ Filter(Range(field, minVal, maxVal))

FilterRangeExclusive(field, minVal, maxVal) ==
    /\ calls.filter < MaxRangeCalls
    /\ Filter(RangeExclusive(field, minVal, maxVal))

\* f, err := v.TryRange(field, min, max): on an error the caller has no filter to pass
\* (v.Range panics), on success the filter goes to b.Filter
FilterTried(call, tried) ==
    IF tried.err # ""
    THEN /\ origin = "builder"
         /\ ret' = Returned(call, "", NilVal, tried.err)
         /\ UNCHANGED <<origin, ast, err, calls, threads>>
    ELSE /\ calls.filter < MaxRangeCalls
         /\ Filter(tried.result)

FilterTryRange(field, minVal, maxVal) ==
    FilterTried("TryRange", TryRange(field, minVal, maxVal))

FilterTryRangeExclusive(field, minVal, maxVal) ==
    FilterTried("TryRangeExclusive", TryRangeExclusive(field, minVal, maxVal))

\* a SEARCH builder that receives range filters
RangeInit ==
    /\ BuilderInit
    /\ ast.Operation = OpSearch

RangeNext ==
    \/ \E v \in BuilderVectors : Vector(v)
    \/ \E k \in BuilderTopKs : TopK(k)
    \/ \E lo \in RangeMins, hi \in RangeMaxs : FilterRange(M("price"), lo, hi)
    \/ \E lo \in RangeMins, hi \in RangeMaxs : FilterRangeExclusive(M("price"), lo, hi)
    \/ \E field \in RangeFields, lo \in RangeMins, hi \in RangeMaxs :
          FilterTryRange(field, lo, hi)
    \/ \E field \in RangeFields, lo \in RangeMins, hi \in RangeMaxs :
          FilterTryRangeExclusive(field, lo, hi)
    \/ Build
    \/ \E r \in Renderers : BuilderRender(r)

RangeSpec == RangeInit /\ [][RangeNext]_vars

-----------------------------------------------------------------------------
(* Validate and Render block by block, and the calls that run them concurrently *)

\* A call of Validate or Render works on memory: the VectorAST behind the pointer it was
\* handed, which every caller holding that pointer shares; the Renderer value behind the
\* receiver, which every call on that renderer shares; the accumulator `params`, which
\* Render declares as a local and whose address it hands to one emitter; and the locals
\* of the function it is in. The calls of the goroutines interleave block by block: a
\* block is one commented section of a function, one iteration of a loop over records or
\* rows, or one call of renderFilter. Every block below is written as the function from
\* the memory before it to the memory after it, so that whatever the block assigns, the
\* AST and the Renderer included, is what the next block of any call finds.
Threads == {1, 2}

\* the locals of a goroutine that is in no call
Idle ==
    [call |-> "", renderer |-> "", on |-> "", pc |-> "idle", query |-> <<>>,
     items |-> <<>>, className |-> "", orc |-> <<>>, out |-> Failed("")]

\* the ASTs the concurrent callers may share
ConcASTs ==
    {[EmptyAST(OpSearch, "products") EXCEPT
          !.QueryVector = Vec(P("query_vec")), !.TopK = ParamK(P("k")),
          !.MinScore = P("min_score"),
          !.QueryEmbedding = [Name |-> "dense", Collection |-> "products"],
          !.IncludeMetadata = TRUE, !.MetadataFields = <<M("category")>>,
          !.FilterClause = ScenarioFilter, !.Namespace = P("ns")],
     [EmptyAST(OpSearch, "products") EXCEPT !.QueryVector = Vec(P("query_vec")),
                                            !.TopK = StaticK(10),
                                            !.FilterClause = LeafGeo],
     [EmptyAST(OpUpdate, "products") EXCEPT
          !.IDs = <<P("id1"), P("id2")>>,
          !.Updates = (M("category") :> P("cat")) @@ (M("price") :> P("amount")),
          !.Namespace = P("ns")],
     [EmptyAST(OpDelete, "products") EXCEPT !.FilterClause = LeafActive, !.DeleteAll = TRUE,
                                            !.Namespace = P("ns")],
     [EmptyAST(OpDelete, "products") EXCEPT !.IDs = <<P("id1"), P("id2")>>],
     [EmptyAST(OpDelete, "") EXCEPT !.IDs = <<P("id1")>>]}

\* the AST a caller holds for itself
ConcOwn(t) ==
    IF t = 1 THEN [EmptyAST(OpFetch, "products") EXCEPT
                       !.IDs = <<P("id2"), P("id1"), P("id2")>>,
                       !.IncludeMetadata = TRUE, !.IncludeVectors = TRUE]
    ELSE [EmptyAST(OpUpsert, "products") EXCEPT !.Vectors = <<RecFull, RecLiteral>>,
                                                !.Namespace = P("ns")]

\* *params = append(*params, name)
Bind(s, name) == [s EXCEPT !.params = Append(@, name)]

\* query[key] = value
SetKey(s, key, value) == [s EXCEPT !.query = Put(@, key, value)]

\* the block is over, the call goes on at pc
Goto(s, pc) == [s EXCEPT !.pc = pc]

\* return result, e
Return(s, result, e) == [s EXCEPT !.pc = "done", !.out = [result |-> result, err |-> e]]

\* the runtime drew the order o for the range loop of this block
Drew(s, o) == [s EXCEPT !.orc = Append(@, o)]

\* Validate returns e: to the caller of Validate, or into Render, which returns the
\* wrapped error or goes on to declare its accumulator
ValidateReturns(s, e) ==
    IF s.call = "Validate" THEN Return(s, NilVal, e)
    ELSE IF e # "" THEN Return(s, NilVal, ErrInvalidAST(e))
    ELSE Goto(s, "params")

\* (*VectorAST).Validate and the validator of each operation, one block each
Validate_step(s) ==
    LET a == s.ir IN
    CASE s.pc = "Validate" ->
             IF a.Target.Name = "" THEN ValidateReturns(s, ErrTarget)
             ELSE IF a.Operation = OpSearch THEN Goto(s, "validateSearch")
             ELSE IF a.Operation = OpUpsert THEN Goto(s, "validateUpsert")
             ELSE IF a.Operation = OpDelete THEN Goto(s, "validateDelete")
             ELSE IF a.Operation = OpFetch THEN Goto(s, "validateFetch")
             ELSE IF a.Operation = OpUpdate THEN Goto(s, "validateUpdate")
             ELSE ValidateReturns(s, ErrUnsupportedOp(a.Operation))
      [] s.pc = "validateSearch" ->
             ValidateReturns(s,
                 IF a.QueryVector = NilVal THEN ErrNoVector
                 ELSE IF a.TopK = NilVal THEN ErrNoTopK
                 ELSE IF a.TopK.Static # NilVal /\ a.TopK.Static.val > MaxTopK
                     THEN ErrTopKMax(a.TopK.Static.val)
                 ELSE IF a.TopK.Static # NilVal /\ a.TopK.Static.val <= 0
                     THEN ErrTopKPositive(a.TopK.Static.val)
                 ELSE IF Len(a.MetadataFields) > MaxMetadataFields
                     THEN ErrMetadataFields(Len(a.MetadataFields))
                 ELSE IF a.FilterClause # NilVal THEN validateFilterDepth(a.FilterClause, 0)
                 ELSE "")
      [] s.pc = "validateUpsert" ->
             ValidateReturns(s,
                 IF Len(a.Vectors) = 0 THEN ErrNoVectors
                 ELSE IF Len(a.Vectors) > MaxBatchSize THEN ErrBatch(Len(a.Vectors))
                 ELSE "")
      [] s.pc = "validateDelete" ->
             ValidateReturns(s,
                 IF Len(a.IDs) = 0 /\ a.FilterClause = NilVal THEN ErrDeleteNothing
                 ELSE IF a.FilterClause # NilVal /\ ~a.DeleteAll THEN ErrDeleteAll
                 ELSE IF Len(a.IDs) > MaxIDsPerFetch THEN ErrTooManyIDs(Len(a.IDs))
                 ELSE "")
      [] s.pc = "validateFetch" ->
             ValidateReturns(s,
                 IF Len(a.IDs) = 0 THEN ErrFetchNoIDs
                 ELSE IF Len(a.IDs) > MaxIDsPerFetch THEN ErrTooManyIDs(Len(a.IDs))
                 ELSE "")
      [] s.pc = "validateUpdate" ->
             ValidateReturns(s,
                 IF Len(a.IDs) = 0 THEN ErrUpdateNoIDs
                 ELSE IF Cardinality(DOMAIN a.Updates) = 0 THEN ErrUpdateNoFields
                 ELSE IF Len(a.IDs) > MaxIDsPerFetch THEN ErrTooManyIDs(Len(a.IDs))
                 ELSE "")

ValidateBlocks ==
    {"Validate", "validateSearch", "validateUpsert", "validateDelete", "validateFetch",
     "validateUpdate"}

\* Render after its call of Validate, the same in the four packages: the declaration of
\* the accumulator with the switch over the operation, and the toResult that ends every
\* emitter
Render_step(s) ==
    CASE s.pc = "params" ->
             LET s0 == [s EXCEPT !.params = <<>>]
             IN IF s.ir.Operation = OpSearch THEN Goto(s0, "renderSearch")
                ELSE IF s.ir.Operation = OpUpsert THEN Goto(s0, "renderUpsert")
                ELSE IF s.ir.Operation = OpDelete THEN Goto(s0, "renderDelete")
                ELSE IF s.ir.Operation = OpFetch THEN Goto(s0, "renderFetch")
                ELSE IF s.ir.Operation = OpUpdate THEN Goto(s0, "renderUpdate")
                ELSE Return(s0, NilVal, ErrUnsupportedOp(s.ir.Operation))
      [] s.pc = "toResult" ->
             LET res == toResult(s.query, s.params)
             IN Return(s, res.result, res.err)

RenderBlocks == {"params", "toResult"}

\* a "Filter" block that takes the clause out of the AST once it is rendered
pinecone_searchFilter_Consumes(s) ==
    IF s.ir.FilterClause = NilVal THEN Goto(s, "namespace")
    ELSE LET fr == pinecone_renderFilter(s.ir.FilterClause, s.params)
             s1 == [s EXCEPT !.params = fr.params, !.ir.FilterClause = NilVal]
         IN IF fr.err # "" THEN Return(s1, NilVal, fr.err)
            ELSE Goto(SetKey(s1, "filter", fr.v), "namespace")

\* the "Filter" block of Pinecone's renderSearch
pinecone_searchFilter(s) ==
    IF s.ir.FilterClause = NilVal THEN Goto(s, "namespace")
    ELSE LET fr == pinecone_renderFilter(s.ir.FilterClause, s.params)
             s1 == [s EXCEPT !.params = fr.params]
         IN IF fr.err # "" THEN Return(s1, NilVal, fr.err)
            ELSE Goto(SetKey(s1, "filter", fr.v), "namespace")

\* the emitters of Pinecone; o is the order the runtime draws when the block ranges over
\* a map
pinecone_step(s, o) ==
    LET a == s.ir IN
    CASE s.pc = "renderSearch" ->
             LET s0 == [s EXCEPT !.query = <<>>]
             IN Goto(IF a.TopK # NilVal /\ a.TopK.Static # NilVal
                         THEN SetKey(s0, "topK", JNum(a.TopK.Static.val))
                     ELSE IF a.TopK # NilVal /\ a.TopK.Param # NilVal
                         THEN SetKey(Bind(s0, a.TopK.Param.Name),
                                     "topK", Placeholder(a.TopK.Param.Name))
                     ELSE s0,
                     "renderSearch.include")
      [] s.pc = "renderSearch.include" ->
             Goto(SetKey(SetKey(s, "includeValues", JBool(a.IncludeVectors)),
                         "includeMetadata", JBool(a.IncludeMetadata)),
                  "renderSearch.vector")
      [] s.pc = "renderSearch.vector" ->
             Goto(IF a.QueryVector = NilVal THEN s
                  ELSE IF a.QueryVector.Param # NilVal
                      THEN SetKey(Bind(s, a.QueryVector.Param.Name),
                                  "vector", Placeholder(a.QueryVector.Param.Name))
                  ELSE SetKey(s, "vector", JFloats(a.QueryVector.Literal)),
                  "renderSearch.filter")
      [] s.pc = "renderSearch.filter" -> pinecone_searchFilter(s)
      [] s.pc = "renderUpsert" ->
             Goto([s EXCEPT !.items = <<>>],
                  IF Len(a.Vectors) > 0 THEN "renderUpsert.record" ELSE "renderUpsert.query")
      [] s.pc = "renderUpsert.record" ->
             LET i == Len(s.items) + 1
                 rec == pinecone_upsertRecord(a.Vectors[i], s.params, o)
             IN Goto(Drew([s EXCEPT !.params = rec.params, !.items = Append(@, rec.v)], o),
                     IF i < Len(a.Vectors) THEN "renderUpsert.record"
                     ELSE "renderUpsert.query")
      [] s.pc = "renderUpsert.query" ->
             Goto([s EXCEPT !.query = Put(<<>>, "vectors", JArr(s.items))], "namespace")
      [] s.pc = "renderDelete" ->
             LET s0 == [s EXCEPT !.query = <<>>]
             IN IF Len(a.IDs) > 0
                THEN Goto(SetKey([s0 EXCEPT !.params = @ \o IDNames(a.IDs)],
                                 "ids", IDPlaceholders(a.IDs)),
                          "namespace")
                ELSE IF a.FilterClause # NilVal /\ a.DeleteAll
                THEN LET fr == pinecone_renderFilter(a.FilterClause, s.params)
                         s1 == [s0 EXCEPT !.params = fr.params]
                     IN IF fr.err # "" THEN Return(s1, NilVal, fr.err)
                        ELSE Goto(SetKey(SetKey(s1, "filter", fr.v),
                                         "deleteAll", JBool(FALSE)),
                                  "namespace")
                ELSE Goto(s0, "namespace")
      [] s.pc = "renderFetch" ->
             Goto([s EXCEPT !.params = @ \o IDNames(a.IDs),
                            !.query = Put(<<>>, "ids", IDPlaceholders(a.IDs))],
                  "namespace")
      [] s.pc = "renderUpdate" ->
             IF Len(a.IDs) = 0 THEN Return(s, NilVal, ErrUpdateNoIDs)
             ELSE Goto([Bind(s, a.IDs[1].Name) EXCEPT
                            !.query = Put(<<>>, "id", Placeholder(a.IDs[1].Name))],
                       "renderUpdate.updates")
      [] s.pc = "renderUpdate.updates" ->
             LET ks == RangeOrder(a.Updates, o)
                 s1 == [s EXCEPT !.params = @ \o RangeParams(a.Updates, o)]
             IN Goto(Drew(IF Len(ks) > 0
                              THEN SetKey(s1, "setMetadata",
                                          JObj(RangePut(<<>>, a.Updates, ks, 1)))
                          ELSE s1, o),
                     "namespace")
      [] s.pc = "namespace" ->
             LET ns == pinecone_namespace(a, s.query, s.params)
             IN Goto([s EXCEPT !.query = ns.query, !.params = ns.params], "toResult")

\* the emitters of Qdrant
qdrant_step(s, o) ==
    LET a == s.ir IN
    CASE s.pc = "renderSearch" ->
             LET s0 == [s EXCEPT !.query = <<>>]
                 s1 == IF a.QueryVector # NilVal /\ a.QueryVector.Param # NilVal
                           THEN Bind(s0, a.QueryVector.Param.Name)
                       ELSE s0
                 vq0 == IF a.QueryVector = NilVal THEN <<>>
                        ELSE IF a.QueryVector.Param # NilVal
                            THEN Put(<<>>, "vector", Placeholder(a.QueryVector.Param.Name))
                        ELSE Put(<<>>, "vector", JFloats(a.QueryVector.Literal))
                 vq1 == IF a.QueryEmbedding # NilVal /\ a.QueryEmbedding.Name # ""
                            THEN Put(vq0, "name", JStr(a.QueryEmbedding.Name))
                        ELSE IF s.cfg.DefaultVectorName # ""
                            THEN Put(vq0, "name", JStr(s.cfg.DefaultVectorName))
                        ELSE vq0
             IN Goto(SetKey(s1, "query", JObj(vq1)), "renderSearch.limit")
      [] s.pc = "renderSearch.limit" ->
             Goto(IF a.TopK # NilVal /\ a.TopK.Static # NilVal
                      THEN SetKey(s, "limit", JNum(a.TopK.Static.val))
                  ELSE IF a.TopK # NilVal /\ a.TopK.Param # NilVal
                      THEN SetKey(Bind(s, a.TopK.Param.Name),
                                  "limit", Placeholder(a.TopK.Param.Name))
                  ELSE s,
                  "renderSearch.score")
      [] s.pc = "renderSearch.score" ->
             Goto(IF a.MinScore # NilVal
                      THEN SetKey(Bind(s, a.MinScore.Name),
                                  "score_threshold", Placeholder(a.MinScore.Name))
                  ELSE s,
                  "renderSearch.with")
      [] s.pc = "renderSearch.with" ->
             Goto(SetKey(SetKey(s, "with_payload", JBool(a.IncludeMetadata)),
                         "with_vector", JBool(a.IncludeVectors)),
                  "renderSearch.filter")
      [] s.pc = "renderSearch.filter" ->
             IF a.FilterClause = NilVal THEN Goto(s, "toResult")
             ELSE LET fr == qdrant_renderFilter(a.FilterClause, s.params)
                      s1 == [s EXCEPT !.params = fr.params]
                  IN IF fr.err # "" THEN Return(s1, NilVal, fr.err)
                     ELSE Goto(SetKey(s1, "filter", fr.v), "toResult")
      [] s.pc = "renderUpsert" ->
             Goto([s EXCEPT !.items = <<>>],
                  IF Len(a.Vectors) > 0 THEN "renderUpsert.record" ELSE "renderUpsert.query")
      [] s.pc = "renderUpsert.record" ->
             LET i == Len(s.items) + 1
                 rec == qdrant_upsertRecord(a.Vectors[i], s.params, o)
             IN Goto(Drew([s EXCEPT !.params = rec.params, !.items = Append(@, rec.v)], o),
                     IF i < Len(a.Vectors) THEN "renderUpsert.record"
                     ELSE "renderUpsert.query")
      [] s.pc = "renderUpsert.query" ->
             Goto([s EXCEPT !.query = Put(<<>>, "points", JArr(s.items))], "toResult")
      [] s.pc = "renderDelete" ->
             LET s0 == [s EXCEPT !.query = <<>>]
             IN IF Len(a.IDs) > 0
                THEN Goto(SetKey([s0 EXCEPT !.params = @ \o IDNames(a.IDs)],
                                 "points", IDPlaceholders(a.IDs)),
                          "toResult")
                ELSE IF a.FilterClause # NilVal /\ a.DeleteAll
                THEN LET fr == qdrant_renderFilter(a.FilterClause, s.params)
                         s1 == [s0 EXCEPT !.params = fr.params]
                     IN IF fr.err # "" THEN Return(s1, NilVal, fr.err)
                        ELSE Goto(SetKey(s1, "filter", fr.v), "toResult")
                ELSE Goto(s0, "toResult")
      [] s.pc = "renderFetch" ->
             Goto([s EXCEPT !.params = @ \o IDNames(a.IDs),
                            !.query = Put(Put(Put(<<>>, "ids", IDPlaceholders(a.IDs)),
                                              "with_payload", JBool(a.IncludeMetadata)),
                                          "with_vector", JBool(a.IncludeVectors))],
                  "toResult")
      [] s.pc = "renderUpdate" ->
             Goto([s EXCEPT !.params = @ \o IDNames(a.IDs),
                            !.items = IDPlaceholders(a.IDs).a],
                  "renderUpdate.payload")
      [] s.pc = "renderUpdate.payload" ->
             LET payload == RangePut(<<>>, a.Updates, RangeOrder(a.Updates, o), 1)
             IN Goto(Drew([s EXCEPT !.params = @ \o RangeParams(a.Updates, o),
                                    !.query = Put(Put(<<>>, "points", JArr(s.items)),
                                                  "payload", JObj(payload))], o),
                     "toResult")

\* the emitters of Milvus
milvus_step(s, o) ==
    LET a == s.ir IN
    CASE s.pc = "renderSearch" ->
             LET vectorField == IF a.QueryEmbedding # NilVal /\ a.QueryEmbedding.Name # ""
                                THEN a.QueryEmbedding.Name
                                ELSE s.cfg.DefaultVectorField
             IN Goto([s EXCEPT !.query = Put(Put(<<>>, "collection_name", JStr(a.Target.Name)),
                                             "anns_field", JStr(vectorField))],
                     "renderSearch.data")
      [] s.pc = "renderSearch.data" ->
             Goto(IF a.QueryVector = NilVal THEN s
                  ELSE IF a.QueryVector.Param # NilVal
                      THEN SetKey(Bind(s, a.QueryVector.Param.Name),
                                  "data", Placeholder(a.QueryVector.Param.Name))
                  ELSE SetKey(s, "data", JArr(<<JFloats(a.QueryVector.Literal)>>)),
                  "renderSearch.limit")
      [] s.pc = "renderSearch.limit" ->
             Goto(IF a.TopK # NilVal /\ a.TopK.Static # NilVal
                      THEN SetKey(s, "limit", JNum(a.TopK.Static.val))
                  ELSE IF a.TopK # NilVal /\ a.TopK.Param # NilVal
                      THEN SetKey(Bind(s, a.TopK.Param.Name),
                                  "limit", Placeholder(a.TopK.Param.Name))
                  ELSE s,
                  "renderSearch.fields")
      [] s.pc = "renderSearch.fields" ->
             Goto(IF a.IncludeMetadata /\ Len(a.MetadataFields) > 0
                      THEN SetKey(s, "output_fields", FieldNames(a.MetadataFields))
                  ELSE s,
                  "renderSearch.filter")
      [] s.pc = "renderSearch.filter" ->
             IF a.FilterClause = NilVal THEN Goto(s, "partitions")
             ELSE LET fr == milvus_renderFilter(a.FilterClause, s.params)
                      s1 == [s EXCEPT !.params = fr.params]
                  IN IF fr.err # "" THEN Return(s1, NilVal, fr.err)
                     ELSE Goto(SetKey(s1, "filter", JStr(fr.v)), "partitions")
      [] s.pc = "renderUpsert" ->
             Goto([s EXCEPT !.query = Put(<<>>, "collection_name", JStr(a.Target.Name)),
                            !.items = <<>>],
                  IF Len(a.Vectors) > 0 THEN "renderUpsert.record" ELSE "renderUpsert.data")
      [] s.pc = "renderUpsert.record" ->
             LET i == Len(s.items) + 1
                 rec == milvus_upsertRecord(s.cfg, a.Vectors[i], s.params, o)
             IN Goto(Drew([s EXCEPT !.params = rec.params, !.items = Append(@, rec.v)], o),
                     IF i < Len(a.Vectors) THEN "renderUpsert.record"
                     ELSE "renderUpsert.data")
      [] s.pc = "renderUpsert.data" -> Goto(SetKey(s, "data", JArr(s.items)), "partition")
      [] s.pc = "renderDelete" ->
             LET s0 == [s EXCEPT !.query = Put(<<>>, "collection_name", JStr(a.Target.Name))]
             IN IF Len(a.IDs) > 0
                THEN Goto(SetKey([s0 EXCEPT !.params = @ \o IDNames(a.IDs)],
                                 "filter", JStr(milvus_idExpr(a.IDs))),
                          "partition")
                ELSE IF a.FilterClause # NilVal /\ a.DeleteAll
                THEN LET fr == milvus_renderFilter(a.FilterClause, s.params)
                         s1 == [s0 EXCEPT !.params = fr.params]
                     IN IF fr.err # "" THEN Return(s1, NilVal, fr.err)
                        ELSE Goto(SetKey(s1, "filter", JStr(fr.v)), "partition")
                ELSE Goto(s0, "partition")
      [] s.pc = "renderFetch" ->
             Goto([s EXCEPT !.params = @ \o IDNames(a.IDs),
                            !.query = Put(Put(<<>>, "collection_name", JStr(a.Target.Name)),
                                          "filter", JStr(milvus_idExpr(a.IDs)))],
                  "renderFetch.fields")
      [] s.pc = "renderFetch.fields" ->
             Goto(IF a.IncludeMetadata /\ Len(a.MetadataFields) > 0
                      THEN SetKey(s, "output_fields", FieldNames(a.MetadataFields))
                  ELSE IF a.IncludeMetadata
                      THEN SetKey(s, "output_fields", JStrings(<<"*">>))
                  ELSE s,
                  "partitions")
      [] s.pc = "renderUpdate" ->
             Goto([s EXCEPT !.query = Put(<<>>, "collection_name", JStr(a.Target.Name)),
                            !.items = <<>>],
                  IF Len(a.IDs) > 0 THEN "renderUpdate.row" ELSE "renderUpdate.data")
      [] s.pc = "renderUpdate.row" ->
             LET i == Len(s.items) + 1
                 row == milvus_updateRow(a, a.IDs[i], s.params, o)
             IN Goto(Drew([s EXCEPT !.params = row.params, !.items = Append(@, row.v)], o),
                     IF i < Len(a.IDs) THEN "renderUpdate.row" ELSE "renderUpdate.data")
      [] s.pc = "renderUpdate.data" -> Goto(SetKey(s, "data", JArr(s.items)), "toResult")
      [] s.pc = "partition" ->
             LET ns == milvus_partition(a, s.query, s.params)
             IN Goto([s EXCEPT !.query = ns.query, !.params = ns.params], "toResult")
      [] s.pc = "partitions" ->
             Goto(IF a.Namespace # NilVal
                      THEN SetKey(Bind(s, a.Namespace.Name),
                                  "partition_names", JArr(<<Placeholder(a.Namespace.Name)>>))
                  ELSE s,
                  "toResult")

\* the emitters of Weaviate
weaviate_step(s, o) ==
    LET a == s.ir IN
    CASE s.pc = "renderSearch" ->
             LET s0 == [s EXCEPT !.className = formatClassName(a.Target.Name)]
             IN Goto([s0 EXCEPT !.query = Put(<<>>, "class", JStr(s0.className))],
                     "renderSearch.nearVector")
      [] s.pc = "renderSearch.nearVector" ->
             LET s1 == IF a.QueryVector # NilVal /\ a.QueryVector.Param # NilVal
                           THEN Bind(s, a.QueryVector.Param.Name)
                       ELSE s
                 nv0 == IF a.QueryVector = NilVal THEN <<>>
                        ELSE IF a.QueryVector.Param # NilVal
                            THEN Put(<<>>, "vector", Placeholder(a.QueryVector.Param.Name))
                        ELSE Put(<<>>, "vector", JFloats(a.QueryVector.Literal))
                 s2 == IF a.MinScore # NilVal THEN Bind(s1, a.MinScore.Name) ELSE s1
                 nv1 == IF a.MinScore # NilVal
                            THEN Put(nv0, "certainty", Placeholder(a.MinScore.Name))
                        ELSE nv0
                 nv2 == IF a.QueryEmbedding # NilVal /\ a.QueryEmbedding.Name # ""
                            THEN Put(nv1, "targetVectors", JStrings(<<a.QueryEmbedding.Name>>))
                        ELSE nv1
             IN Goto(SetKey(s2, "nearVector", JObj(nv2)), "renderSearch.limit")
      [] s.pc = "renderSearch.limit" ->
             Goto(IF a.TopK # NilVal /\ a.TopK.Static # NilVal
                      THEN SetKey(s, "limit", JNum(a.TopK.Static.val))
                  ELSE IF a.TopK # NilVal /\ a.TopK.Param # NilVal
                      THEN SetKey(Bind(s, a.TopK.Param.Name),
                                  "limit", Placeholder(a.TopK.Param.Name))
                  ELSE s,
                  "renderSearch.properties")
      [] s.pc = "renderSearch.properties" ->
             Goto(IF a.IncludeMetadata /\ Len(a.MetadataFields) > 0
                      THEN SetKey(s, "properties", FieldNames(a.MetadataFields))
                  ELSE s,
                  "renderSearch.where")
      [] s.pc = "renderSearch.where" ->
             IF a.FilterClause = NilVal THEN Goto(s, "renderSearch.tenant")
             ELSE LET fr == weaviate_renderFilter(a.FilterClause, s.params)
                      s1 == [s EXCEPT !.params = fr.params]
                  IN IF fr.err # "" THEN Return(s1, NilVal, fr.err)
                     ELSE Goto(SetKey(s1, "where", fr.v), "renderSearch.tenant")
      [] s.pc = "renderSearch.tenant" ->
             LET ns == weaviate_tenant(a, s.query, s.params)
             IN Goto([s EXCEPT !.query = ns.query, !.params = ns.params],
                     "renderSearch.additional")
      [] s.pc = "renderSearch.additional" ->
             Goto(IF a.IncludeVectors
                      THEN SetKey(s, "additional",
                                  JStrings(<<"vector", "distance", "certainty">>))
                  ELSE SetKey(s, "additional", JStrings(<<"distance", "certainty">>)),
                  "toResult")
      [] s.pc = "renderUpsert" ->
             Goto([s EXCEPT !.className = formatClassName(a.Target.Name), !.items = <<>>],
                  IF Len(a.Vectors) > 0 THEN "renderUpsert.record" ELSE "renderUpsert.query")
      [] s.pc = "renderUpsert.record" ->
             LET i == Len(s.items) + 1
                 rec == weaviate_upsertRecord(s.className, a.Vectors[i], s.params, o)
             IN Goto(Drew([s EXCEPT !.params = rec.params, !.items = Append(@, rec.v)], o),
                     IF i < Len(a.Vectors) THEN "renderUpsert.record"
                     ELSE "renderUpsert.query")
      [] s.pc = "renderUpsert.query" ->
             Goto([s EXCEPT !.query = Put(<<>>, "objects", JArr(s.items))], "tenant")
      [] s.pc = "renderDelete" ->
             LET s0 == [s EXCEPT !.className = formatClassName(a.Target.Name),
                                 !.query = Put(<<>>, "class",
                                               JStr(formatClassName(a.Target.Name)))]
             IN IF Len(a.IDs) > 0
                THEN Goto(SetKey([s0 EXCEPT !.params = @ \o IDNames(a.IDs)],
                                 "ids", IDPlaceholders(a.IDs)),
                          "tenant")
                ELSE IF a.FilterClause # NilVal /\ a.DeleteAll
                THEN LET fr == weaviate_renderFilter(a.FilterClause, s.params)
                         s1 == [s0 EXCEPT !.params = fr.params]
                     IN IF fr.err # "" THEN Return(s1, NilVal, fr.err)
                        ELSE Goto(SetKey(s1, "where", fr.v), "tenant")
                ELSE Goto(s0, "tenant")
      [] s.pc = "renderFetch" ->
             Goto([s EXCEPT !.className = formatClassName(a.Target.Name),
                            !.params = @ \o IDNames(a.IDs),
                            !.query = Put(Put(<<>>, "class",
                                              JStr(formatClassName(a.Target.Name))),
                                          "ids", IDPlaceholders(a.IDs))],
                  "renderFetch.properties")
      [] s.pc = "renderFetch.properties" ->
             Goto(IF a.IncludeMetadata /\ Len(a.MetadataFields) > 0
                      THEN SetKey(s, "properties", FieldNames(a.MetadataFields))
                  ELSE s,
                  "renderFetch.additional")
      [] s.pc = "renderFetch.additional" ->
             Goto(IF a.IncludeVectors THEN SetKey(s, "additional", JStrings(<<"vector">>))
                  ELSE s,
                  "tenant")
      [] s.pc = "renderUpdate" ->
             LET s0 == [s EXCEPT !.className = formatClassName(a.Target.Name)]
             IN IF Len(a.IDs) = 0 THEN Return(s0, NilVal, ErrUpdateNoIDs)
                ELSE Goto(Bind(s0, a.IDs[1].Name), "renderUpdate.properties")
      [] s.pc = "renderUpdate.properties" ->
             LET properties == RangePut(<<>>, a.Updates, RangeOrder(a.Updates, o), 1)
             IN Goto(Drew([s EXCEPT !.params = @ \o RangeParams(a.Updates, o),
                                    !.query = Put(Put(Put(<<>>, "class", JStr(s.className)),
                                                      "id", Placeholder(a.IDs[1].Name)),
                                                  "properties", JObj(properties))], o),
                     "tenant")
      [] s.pc = "tenant" ->
             LET ns == weaviate_tenant(a, s.query, s.params)
             IN Goto([s EXCEPT !.query = ns.query, !.params = ns.params], "toResult")

\* the next block of the call whose memory is s
Step(s, o) ==
    IF s.pc \in ValidateBlocks THEN Validate_step(s)
    ELSE IF s.pc \in RenderBlocks THEN Render_step(s)
    ELSE CASE s.renderer = "pinecone" -> pinecone_step(s, o)
           [] s.renderer = "qdrant" -> qdrant_step(s, o)
           [] s.renderer = "milvus" -> milvus_step(s, o)
           [] s.renderer = "weaviate" -> weaviate_step(s, o)

\* the orders the runtime may draw in the next block: those of the keys of the map the
\* block ranges over, and nothing to draw in a block that ranges over no map
Draws(s) ==
    IF s.pc = "renderUpsert.record"
        THEN Perms(DOMAIN s.ir.Vectors[Len(s.items) + 1].Metadata)
    ELSE IF s.pc \in {"renderUpdate.updates", "renderUpdate.payload",
                      "renderUpdate.properties", "renderUpdate.row"}
        THEN Perms(DOMAIN s.ir.Updates)
    ELSE {<<>>}

\* the AST behind the pointer goroutine t passed to its call
IR(t) == IF threads.call[t].on = "shared" THEN ast ELSE threads.own[t]

\* the variable `params` in the frame of the Render call of goroutine t
Local(t) == IF t = 1 THEN "call1" ELSE "call2"

\* an accumulator kept with the renderer: every call on one renderer appends to the same
\* slice
Accumulator_OfRenderer(t) == threads.call[t].renderer

\* where the emitters of the call of goroutine t append: Render declares `params` in its
\* own frame and passes &params down
Accumulator(t) == Local(t)

Accumulators == {Local(t) : t \in Threads} \cup Renderers

\* the memory the call of goroutine t works on
Load(t) ==
    LET f == threads.call[t]
    IN [call |-> f.call, renderer |-> f.renderer, on |-> f.on, pc |-> f.pc,
        query |-> f.query, items |-> f.items, className |-> f.className, orc |-> f.orc,
        out |-> f.out,
        ir |-> IR(t),
        cfg |-> IF f.renderer \in DOMAIN threads.cfg THEN threads.cfg[f.renderer]
                ELSE NilVal,
        params |-> IF f.call = "Render" THEN threads.cells[Accumulator(t)] ELSE <<>>]

\* the locals in the memory s
Frame(s) ==
    [call |-> s.call, renderer |-> s.renderer, on |-> s.on, pc |-> s.pc,
     query |-> s.query, items |-> s.items, className |-> s.className, orc |-> s.orc,
     out |-> s.out]

\* goroutine t calls Validate (kind "Validate") or the Render of renderer r (kind
\* "Render") on the AST it shares with the others or on its own
ConcBegin(t, kind, r, on) ==
    /\ origin = "concurrent"
    /\ threads.call[t].pc = "idle"
    /\ threads' = [threads EXCEPT !.call[t] = [Idle EXCEPT !.call = kind, !.renderer = r,
                                                           !.on = on, !.pc = "Validate"]]
    /\ UNCHANGED <<origin, ast, err, calls, ret>>

\* the call of goroutine t runs its next block on the memory as it is now, and leaves
\* the memory as the block leaves it
ConcStep(t) ==
    /\ origin = "concurrent"
    /\ threads.call[t].pc \notin {"idle", "done"}
    /\ \E o \in Draws(Load(t)) :
           /\ ast' = IF threads.call[t].on = "shared" THEN Step(Load(t), o).ir ELSE ast
           /\ threads' =
                  [threads EXCEPT
                       !.call[t] = Frame(Step(Load(t), o)),
                       !.own[t] = IF threads.call[t].on = "own" THEN Step(Load(t), o).ir
                                  ELSE @,
                       !.cfg = IF threads.call[t].renderer \in DOMAIN @
                                   THEN [@ EXCEPT ![threads.call[t].renderer] =
                                                      Step(Load(t), o).cfg]
                               ELSE @,
                       !.cells = IF threads.call[t].call = "Render"
                                     THEN [@ EXCEPT ![Accumulator(t)] =
                                                        Step(Load(t), o).params]
                                 ELSE @]
    /\ UNCHANGED <<origin, err, calls, ret>>

\* the call of goroutine t returns to its caller: its frame is gone
ConcReturn(t) ==
    /\ origin = "concurrent"
    /\ threads.call[t].pc = "done"
    /\ threads' = [threads EXCEPT !.call[t] = Idle, !.cells[Local(t)] = <<>>]
    /\ UNCHANGED <<origin, ast, err, calls, ret>>

\* two goroutines in no call, holding the pointer to one AST and each the pointer to an
\* AST of its own, and the renderers as New returns them
ConcInit ==
    /\ origin = "concurrent"
    /\ ast \in ConcASTs
    /\ err = ""
    /\ calls = [filter |-> 0, add |-> 0]
    /\ ret = NoCall
    /\ threads = [call |-> [t \in Threads |-> Idle],
                  own |-> [t \in Threads |-> ConcOwn(t)],
                  cfg |-> [qdrant |-> qdrant_New, milvus |-> milvus_New],
                  cells |-> [c \in Accumulators |-> <<>>]]

ConcNext ==
    \/ \E t \in Threads, r \in Renderers, on \in {"shared", "own"} :
           ConcBegin(t, "Render", r, on)
    \/ \E t \in Threads, on \in {"shared", "own"} : ConcBegin(t, "Validate", "", on)
    \/ \E t \in Threads : ConcStep(t)
    \/ \E t \in Threads : ConcReturn(t)

ConcSpec == ConcInit /\ [][ConcNext]_vars

-----------------------------------------------------------------------------
(* Vocabulary of the properties *)

Elems(s) == {s[i] : i \in DOMAIN s}
Largest(S) == CHOOSE x \in S : \A y \in S : y <= x

\* nesting depth: the largest number of FilterGroup nodes on a path from the root to a
\* node, the node counted when it is a group; leaves add none
RECURSIVE Depth(_)
Depth(f) ==
    IF f.type # "FilterGroup" THEN 0
    ELSE 1 + Largest({0} \cup {Depth(f.Conditions[i]) : i \in DOMAIN f.Conditions})

\* the largest number of FilterGroup nodes strictly above a node of the tree
RECURSIVE GroupsAbove(_)
GroupsAbove(f) ==
    IF f.type # "FilterGroup" \/ Len(f.Conditions) = 0 THEN 0
    ELSE 1 + Largest({GroupsAbove(f.Conditions[i]) : i \in DOMAIN f.Conditions})

\* the AST breaks no rule but perhaps one about its filter
ValidButForFilter(a) == Validate([a EXCEPT !.FilterClause = NilVal]) = ""

Validated == ret.call = "Validate"
RenderedBy(r) == ret.call = "Render" /\ ret.renderer = r
RenderReturned == ret.call = "Render"
RenderSucceeded == ret.call = "Render" /\ ret.err = ""
RenderFailed == ret.call = "Render" /\ ret.err # "" /\ ret.result = NilVal

GatedDelete(a) == a.Operation = OpDelete /\ a.FilterClause # NilVal /\ ~a.DeleteAll

-----------------------------------------------------------------------------
(* C1 *)

\* C1: whenever Validate rejects the AST, Render of each of the four renderers returns
\* an error, the validator's wrapped as "invalid AST: ...", and no result: neither a
\* document nor a parameter list.
C1_ValidationGatesRender ==
    (RenderReturned /\ Validate(ast) # "")
        => /\ ret.result = NilVal
           /\ ret.err = ErrInvalidAST(Validate(ast))

\* C1 happens: Qdrant was handed a FETCH of 1001 ids and returned the validator's error
C1_Witness ==
    /\ RenderedBy("qdrant")
    /\ ast.Operation = OpFetch
    /\ Len(ast.IDs) > MaxIDsPerFetch
    /\ ret.result = NilVal
    /\ ret.err = ErrInvalidAST(ErrTooManyIDs(Len(ast.IDs)))

-----------------------------------------------------------------------------
(* C2 *)

\* C2, as the specification words it: a DELETE with a filter and deleteAll = false fails
\* validation with the DeleteAll error whatever its other fields hold.
C2_AnyOtherFields ==
    (Validated /\ GatedDelete(ast)) => ret.err = ErrDeleteAll

\* C2, amended: a DELETE with a filter and deleteAll = false fails validation, with the
\* DeleteAll error when its target is named (ids or no ids, any number of them) and with
\* the target error otherwise; every renderer refuses it, and a DELETE that a renderer
\* does render with deleteAll = false carries no filter: it deletes by ids.
C2_DeleteAllGate ==
    /\ (Validated /\ GatedDelete(ast))
           => ret.err = IF ast.Target.Name = "" THEN ErrTarget ELSE ErrDeleteAll
    /\ (RenderReturned /\ GatedDelete(ast)) => RenderFailed
    /\ (RenderSucceeded /\ ast.Operation = OpDelete /\ ~ast.DeleteAll)
           => /\ ast.FilterClause = NilVal
              /\ ret.result.RequiredParams =
                     IDNames(ast.IDs)
                         \o (IF ast.Namespace # NilVal /\ ret.renderer \in {"pinecone", "weaviate", "milvus"}
                             THEN <<ast.Namespace.Name>> ELSE <<>>)

\* C2 happens: a DELETE naming its target, with ids and a filter and no deleteAll, was
\* validated and refused for the missing flag
C2_Witness ==
    /\ Validated
    /\ GatedDelete(ast)
    /\ ast.Target.Name # ""
    /\ Len(ast.IDs) > 0
    /\ ret.err = ErrDeleteAll

-----------------------------------------------------------------------------
(* C3 *)

\* C3: on a SEARCH that is valid but perhaps for its filter, a filter of depth 5 or less
\* passes validation, and a filter of depth 6 fails it with "filter nesting too deep"
\* naming the maximum 5, so that every renderer fails on it too.
C3_DepthLimit ==
    (/\ ast.Operation = OpSearch
     /\ ast.FilterClause # NilVal
     /\ ValidButForFilter(ast))
        => /\ (Validated /\ Depth(ast.FilterClause) <= MaxFilterDepth) => ret.err = ""
           /\ (Validated /\ Depth(ast.FilterClause) = MaxFilterDepth + 1)
                  => ret.err = ErrDepth(MaxFilterDepth + 1)
           /\ (RenderReturned /\ Depth(ast.FilterClause) = MaxFilterDepth + 1) => RenderFailed

-----------------------------------------------------------------------------
(* C4 *)

\* the parameter names of the leaves of a filter tree
RECURSIVE FilterParams(_)
FilterParams(f) ==
    CASE f.type = "FilterCondition" -> {f.Value.Name}
      [] f.type = "FilterGroup" ->
           UNION {FilterParams(f.Conditions[i]) : i \in DOMAIN f.Conditions}
      [] f.type = "RangeFilter" ->
           (IF f.Min # NilVal THEN {f.Min.Name} ELSE {})
               \cup (IF f.Max # NilVal THEN {f.Max.Name} ELSE {})
      [] f.type = "GeoFilter" -> {f.Center.Lat.Name, f.Center.Lon.Name, f.Radius.Name}

\* the parameter names of the vector fields: the query vector, the records' vectors and
\* sparse vectors
VectorParams(a) ==
    (IF a.QueryVector # NilVal /\ a.QueryVector.Param # NilVal
     THEN {a.QueryVector.Param.Name} ELSE {})
        \cup {a.Vectors[i].Vector.Param.Name :
                 i \in {k \in DOMAIN a.Vectors : a.Vectors[k].Vector.Param # NilVal}}
        \cup {a.Vectors[i].SparseVector.Param.Name :
                 i \in {k \in DOMAIN a.Vectors :
                           /\ a.Vectors[k].SparseVector # NilVal
                           /\ a.Vectors[k].SparseVector.Param # NilVal}}

\* the parameter names of the id fields: the IDs list and the records' ids
IDParams(a) ==
    {a.IDs[i].Name : i \in DOMAIN a.IDs} \cup {a.Vectors[i].ID.Name : i \in DOMAIN a.Vectors}

ReachableParams(a) ==
    (IF a.FilterClause # NilVal THEN FilterParams(a.FilterClause) ELSE {})
        \cup VectorParams(a) \cup IDParams(a)

\* C4: after a successful Render, every parameter reachable from the AST's filter tree,
\* vector fields and id fields is named in requiredParams.
C4_ParamsComplete ==
    RenderSucceeded => ReachableParams(ast) \subseteq Elems(ret.result.RequiredParams)

-----------------------------------------------------------------------------
(* C5 *)

\* C5: Render is deterministic: a second Render of the same AST by the same renderer
\* returns the document and the ordered requiredParams the first one returned.
C5_Deterministic ==
    [][(/\ ret.call = "Render"
        /\ ret'.call = "Render"
        /\ ret'.renderer = ret.renderer
        /\ ast' = ast)
           => ret'.result = ret.result]_vars

-----------------------------------------------------------------------------
(* C6 *)

\* C6: every renderer is total over a valid AST: when Validate accepts the AST, Render
\* returns a result and no error.
C6_Total ==
    (RenderReturned /\ Validate(ast) = "") => (ret.err = "" /\ ret.result # NilVal)

-----------------------------------------------------------------------------
(* C7 *)

\* a required field of the operation is missing (or the operation is none of the five)
MissingRequired(a) ==
    \/ a.Target.Name = ""
    \/ a.Operation \notin Operations
    \/ a.Operation = OpSearch /\ (a.QueryVector = NilVal \/ a.TopK = NilVal)
    \/ a.Operation = OpUpsert /\ Len(a.Vectors) = 0
    \/ a.Operation = OpDelete /\ Len(a.IDs) = 0 /\ a.FilterClause = NilVal
    \/ a.Operation = OpFetch /\ Len(a.IDs) = 0
    \/ a.Operation = OpUpdate /\ (Len(a.IDs) = 0 \/ DOMAIN a.Updates = {})

StaticTopK(a) == a.TopK # NilVal /\ a.TopK.Static # NilVal

\* the limits of the operation are respected
RespectsLimits(a) ==
    /\ a.Operation = OpSearch
           => /\ StaticTopK(a) => a.TopK.Static.val \in 1..MaxTopK
              /\ Len(a.MetadataFields) <= MaxMetadataFields
              /\ a.FilterClause # NilVal => Depth(a.FilterClause) <= MaxFilterDepth
    /\ a.Operation = OpUpsert => Len(a.Vectors) <= MaxBatchSize
    /\ a.Operation \in {OpDelete, OpFetch, OpUpdate} => Len(a.IDs) <= MaxIDsPerFetch

\* C7, as the specification words it: an AST that lacks a required field is rejected, and
\* one that has the required fields and respects the limits is accepted.
C7_FieldsAndLimitsSuffice ==
    Validated
        => /\ MissingRequired(ast) => ret.err # ""
           /\ (~MissingRequired(ast) /\ RespectsLimits(ast)) => ret.err = ""

\* C7, amended: an AST that lacks a required field is rejected; one that has the required
\* fields, respects the limits and, when it is a DELETE with a filter, sets deleteAll, is
\* accepted; a DELETE with a filter and no deleteAll is rejected though it lacks no field
\* and exceeds no limit.
C7_RequiredFields ==
    Validated
        => /\ MissingRequired(ast) => ret.err # ""
           /\ (~MissingRequired(ast) /\ RespectsLimits(ast) /\ ~GatedDelete(ast))
                  => ret.err = ""
           /\ (~MissingRequired(ast) /\ GatedDelete(ast)) => ret.err = ErrDeleteAll

\* C7 happens: an UPDATE with ids and a target but no updates was validated and rejected
C7_Witness ==
    /\ Validated
    /\ ast.Operation = OpUpdate
    /\ ast.Target.Name # ""
    /\ Len(ast.IDs) \in 1..MaxIDsPerFetch
    /\ DOMAIN ast.Updates = {}
    /\ ret.err = ErrUpdateNoFields

-----------------------------------------------------------------------------
(* C8 *)

Oversized(a) == a.Operation = OpUpsert /\ Len(a.Vectors) > MaxBatchSize

\* C8, as the specification words it: every UPSERT with more than 100 records fails
\* validation with the batch-size error citing 100, and Build never returns an AST
\* holding more than 100 records.
C8_EveryOversizedBatch ==
    /\ (Validated /\ Oversized(ast)) => ret.err = ErrBatch(Len(ast.Vectors))
    /\ (origin = "builder" /\ ret.call = "Build" /\ ret.err = "")
           => Len(ret.result.Vectors) <= MaxBatchSize

\* C8, amended: an UPSERT with more than 100 records fails validation, with the batch-size
\* error citing 100 when its target is named and with the target error otherwise; no
\* renderer renders it; and whatever AddVector and Vectors calls a builder was sent, it
\* never holds more than 100 records, so Build never returns an AST with more.
C8_BatchLimit ==
    /\ (Validated /\ Oversized(ast))
           => ret.err = IF ast.Target.Name = "" THEN ErrTarget
                        ELSE ErrBatch(Len(ast.Vectors))
    /\ (RenderReturned /\ Oversized(ast)) => RenderFailed
    /\ origin = "builder" => Len(ast.Vectors) <= MaxBatchSize
    /\ (origin = "builder" /\ ret.call = "Build" /\ ret.err = "")
           => /\ ret.result = ast
              /\ Len(ret.result.Vectors) \in 1..MaxBatchSize

\* C8 happens: a builder holding 100 records was sent one more, kept its 100 and the
\* batch-size error, and Build returned that error
C8_Witness ==
    /\ origin = "builder"
    /\ Len(ast.Vectors) = MaxBatchSize
    /\ err = "batch size exceeds maximum: " \o ToString(MaxBatchSize)
    /\ ret.call = "Build"
    /\ ret.err = err
    /\ ret.result = NilVal

-----------------------------------------------------------------------------
(* C9 *)

\* the rules of SEARCH in their order, each with whether the AST breaks it
SearchRules(a) ==
    <<a.Target.Name = "",
      a.QueryVector = NilVal,
      a.TopK = NilVal,
      StaticTopK(a) /\ a.TopK.Static.val > MaxTopK,
      StaticTopK(a) /\ a.TopK.Static.val <= 0,
      Len(a.MetadataFields) > MaxMetadataFields,
      a.FilterClause # NilVal /\ GroupsAbove(a.FilterClause) > MaxFilterDepth>>

SearchRuleError(a, i) ==
    CASE i = 1 -> ErrTarget
      [] i = 2 -> ErrNoVector
      [] i = 3 -> ErrNoTopK
      [] i = 4 -> ErrTopKMax(a.TopK.Static.val)
      [] i = 5 -> ErrTopKPositive(a.TopK.Static.val)
      [] i = 6 -> ErrMetadataFields(Len(a.MetadataFields))
      [] i = 7 -> ErrDepth(MaxFilterDepth + 1)

\* the rules of DELETE in their order
DeleteRules(a) ==
    <<a.Target.Name = "",
      Len(a.IDs) = 0 /\ a.FilterClause = NilVal,
      a.FilterClause # NilVal /\ ~a.DeleteAll,
      Len(a.IDs) > MaxIDsPerFetch>>

DeleteRuleError(a, i) ==
    CASE i = 1 -> ErrTarget
      [] i = 2 -> ErrDeleteNothing
      [] i = 3 -> ErrDeleteAll
      [] i = 4 -> ErrTooManyIDs(Len(a.IDs))

Broken(rules) == {i \in DOMAIN rules : rules[i]}
Earliest(rules) == CHOOSE i \in Broken(rules) : \A k \in Broken(rules) : i <= k

\* C9: Validate reports the error of the earliest rule the AST breaks, and that one
\* only, in the order empty target, missing query vector, missing topK, static topK over
\* 10000, static topK not positive, more than 50 metadata fields, filter nested too deep
\* for SEARCH, and empty target, neither ids nor filter, filter without deleteAll, more
\* than 1000 ids for DELETE; it reports none when no rule is broken. (The filter is too
\* deep when one of its nodes lies below more than 5 groups.)
C9_FirstViolatedRule ==
    /\ (Validated /\ ast.Operation = OpSearch)
           => ret.err = IF Broken(SearchRules(ast)) = {} THEN ""
                        ELSE SearchRuleError(ast, Earliest(SearchRules(ast)))
    /\ (Validated /\ ast.Operation = OpDelete)
           => ret.err = IF Broken(DeleteRules(ast)) = {} THEN ""
                        ELSE DeleteRuleError(ast, Earliest(DeleteRules(ast)))

\* C9 happens: a SEARCH breaking four rules at once (the vector is missing, the static
\* topK is over the maximum, the metadata fields are too many and the filter is too deep)
\* was validated and only the missing vector was reported
C9_Witness ==
    /\ Validated
    /\ ast.Operation = OpSearch
    /\ Broken(SearchRules(ast)) = {2, 4, 6, 7}
    /\ ret.err = ErrNoVector

-----------------------------------------------------------------------------
(* C10 *)

\* the parameter names of a filter tree in a left-to-right depth-first walk of its
\* leaves: a group's children in their listed order, a range's min before its max
RECURSIVE Walk(_)
Walk(f) ==
    CASE f.type = "FilterCondition" -> <<f.Value.Name>>
      [] f.type = "FilterGroup" ->
           Appended([i \in 1..Len(f.Conditions) |-> Walk(f.Conditions[i])])
      [] f.type = "RangeFilter" ->
           (IF f.Min # NilVal THEN <<f.Min.Name>> ELSE <<>>)
               \o (IF f.Max # NilVal THEN <<f.Max.Name>> ELSE <<>>)
      [] f.type = "GeoFilter" -> <<f.Center.Lat.Name, f.Center.Lon.Name, f.Radius.Name>>

\* s[i..] is found in t[k..], in order
RECURSIVE SubsequenceFrom(_, _, _, _)
SubsequenceFrom(s, i, t, k) ==
    IF i > Len(s) THEN TRUE
    ELSE IF k > Len(t) THEN FALSE
    ELSE IF s[i] = t[k] THEN SubsequenceFrom(s, i + 1, t, k + 1)
    ELSE SubsequenceFrom(s, i, t, k + 1)

\* a NOT group of several children somewhere in the tree
RECURSIVE HasWideNot(_)
HasWideNot(f) ==
    /\ f.type = "FilterGroup"
    /\ \/ f.Logic = LogicNOT /\ Len(f.Conditions) > 1
       \/ \E i \in DOMAIN f.Conditions : HasWideNot(f.Conditions[i])

\* the emitters that render the filter: SEARCH, and DELETE without ids
FilterIsRendered(a) ==
    /\ a.FilterClause # NilVal
    /\ a.Operation = OpSearch \/ (a.Operation = OpDelete /\ Len(a.IDs) = 0)

\* what the filter contributed to requiredParams (the other parameters of the model's
\* ASTs bear names no filter uses)
Contributed(a, params) == SelectSeq(params, LAMBDA n : n \in FilterParams(a.FilterClause))

\* C10: after a successful Render of an AST whose filter is rendered, the names the
\* filter contributed to requiredParams stand in the order of the left-to-right
\* depth-first walk of its leaves, a range's min before its max: they are the walk
\* itself, but for Milvus on a tree with a NOT group of several children, where they are
\* a part of the walk in the walk's order. For AND(EQ(active), OR(GT(min_price),
\* EQ(category))) they are exactly active, min_price, category.
C10_FilterParamOrder ==
    (RenderSucceeded /\ FilterIsRendered(ast))
        => LET names == Contributed(ast, ret.result.RequiredParams)
               walk == Walk(ast.FilterClause)
           IN /\ SubsequenceFrom(names, 1, walk, 1)
              /\ (ret.renderer # "milvus" \/ ~HasWideNot(ast.FilterClause)) => names = walk
              /\ ast.FilterClause = ScenarioFilter
                     => names = <<"active", "min_price", "category">>

\* C10 happens: Weaviate rendered a SEARCH filtered by the scenario's tree and required
\* active, min_price, category in that order after the query vector
C10_Witness ==
    /\ RenderedBy("weaviate")
    /\ ast.Operation = OpSearch
    /\ ast.FilterClause = ScenarioFilter
    /\ ast.Namespace = NilVal
    /\ ret.err = ""
    /\ ret.result.RequiredParams = <<"query_vec", "active", "min_price", "category">>


-----------------------------------------------------------------------------
(* C11 *)

\* how many times n stands in the sequence s
Count(n, s) == Cardinality({i \in DOMAIN s : s[i] = n})

\* the emitters that write the namespace: all of Pinecone's and Weaviate's, Milvus's but
\* renderUpdate, none of Qdrant's
EmitsNamespace(r, op) ==
    \/ r \in {"pinecone", "weaviate"}
    \/ r = "milvus" /\ op # OpUpdate

\* the namespace's reference, where the emitter renders it
NamespaceRefs(r, a) ==
    IF a.Namespace # NilVal /\ EmitsNamespace(r, a.Operation) THEN <<a.Namespace.Name>> ELSE <<>>

\* the names of the Params of the top-level options
OptionNames(a) ==
    (IF a.QueryVector # NilVal /\ a.QueryVector.Param # NilVal
     THEN {a.QueryVector.Param.Name} ELSE {})
        \cup (IF a.TopK # NilVal /\ a.TopK.Param # NilVal THEN {a.TopK.Param.Name} ELSE {})
        \cup (IF a.MinScore # NilVal THEN {a.MinScore.Name} ELSE {})
        \cup (IF a.Namespace # NilVal THEN {a.Namespace.Name} ELSE {})

\* the emitters that render every id of the IDs list: FETCH, and DELETE by ids
IDsAreRendered(a) ==
    a.Operation = OpFetch \/ (a.Operation = OpDelete /\ Len(a.IDs) > 0)

\* C11: requiredParams records occurrences, not a set. After a successful Render of a
\* FETCH, or of a DELETE by ids, every name stands in requiredParams as many times as
\* the IDs list and the rendered namespace refer to it; after a successful Render of a
\* filter (all of whose nodes the dialect renders), every name of a filter leaf that no
\* top-level option uses stands in requiredParams as many times as leaves refer to it.
\* Nothing is deduplicated.
C11_OccurrencesPreserved ==
    RenderSucceeded
        => LET params == ret.result.RequiredParams
           IN /\ IDsAreRendered(ast)
                    => LET refs == IDNames(ast.IDs) \o NamespaceRefs(ret.renderer, ast)
                       IN \A n \in Elems(refs) \cup Elems(params) :
                              Count(n, params) = Count(n, refs)
              /\ (/\ FilterIsRendered(ast)
                  /\ ~(ret.renderer = "milvus" /\ HasWideNot(ast.FilterClause)))
                    => \A n \in FilterParams(ast.FilterClause) \ OptionNames(ast) :
                           Count(n, params) = Count(n, Walk(ast.FilterClause))

\* C11 happens: Pinecone rendered a FETCH that lists id2 twice and requires id2 twice
C11_Witness ==
    /\ RenderedBy("pinecone")
    /\ ast.Operation = OpFetch
    /\ ast.IDs = <<P("id2"), P("id1"), P("id2")>>
    /\ ret.err = ""
    /\ Count("id2", ret.result.RequiredParams) = 2

-----------------------------------------------------------------------------
(* C12 *)

\* the Params set on a SEARCH: the query vector and topK when they are Params, minScore,
\* the namespace, and the Params of the filter's leaves
SearchRefs(a) ==
    (IF a.QueryVector # NilVal /\ a.QueryVector.Param # NilVal
     THEN <<a.QueryVector.Param.Name>> ELSE <<>>)
        \o (IF a.TopK # NilVal /\ a.TopK.Static = NilVal /\ a.TopK.Param # NilVal
            THEN <<a.TopK.Param.Name>> ELSE <<>>)
        \o (IF a.MinScore # NilVal THEN <<a.MinScore.Name>> ELSE <<>>)
        \o (IF a.Namespace # NilVal THEN <<a.Namespace.Name>> ELSE <<>>)
        \o (IF a.FilterClause # NilVal THEN Walk(a.FilterClause) ELSE <<>>)

\* s and t hold the same names the same number of times
SameBag(s, t) == \A n \in Elems(s) \cup Elems(t) : Count(n, s) = Count(n, t)

\* the SEARCH of the documented scenario: a Param query vector, a static topK of 10
ScenarioSearch(a) ==
    /\ a.Operation = OpSearch
    /\ a.QueryVector = Vec(P("query_vec"))
    /\ a.TopK = StaticK(10)
    /\ a.MinScore = NilVal /\ a.Namespace = NilVal /\ a.FilterClause = NilVal

\* where each dialect writes the query vector and the limit of a SEARCH
SearchVectorOf(r, doc) ==
    CASE r = "pinecone" -> doc.m["vector"]
      [] r = "qdrant" -> doc.m["query"].m["vector"]
      [] r = "milvus" -> doc.m["data"]
      [] r = "weaviate" -> doc.m["nearVector"].m["vector"]

SearchLimitOf(r, doc) == IF r = "pinecone" THEN doc.m["topK"] ELSE doc.m["limit"]

\* C12: after a successful Render of a SEARCH, requiredParams holds, as a multiset,
\* exactly the names of the Params set on the AST: the query vector and topK when they
\* are Params, minScore, the namespace and the Params of the filter, each option once.
\* A SEARCH with the Param query vector query_vec and the static topK 10 and nothing else
\* requires exactly query_vec and carries ":query_vec" and the number 10.
C12_SearchParams ==
    (RenderSucceeded /\ ast.Operation = OpSearch)
        => /\ SameBag(ret.result.RequiredParams, SearchRefs(ast))
           /\ ScenarioSearch(ast)
                  => /\ ret.result.RequiredParams = <<"query_vec">>
                     /\ SearchVectorOf(ret.renderer, ret.result.JSON) = Placeholder("query_vec")
                     /\ SearchLimitOf(ret.renderer, ret.result.JSON) = JNum(10)

-----------------------------------------------------------------------------
(* C13 *)

\* a DELETE by ids: ids and no filter
DeleteByIDs(a) == a.Operation = OpDelete /\ Len(a.IDs) > 0 /\ a.FilterClause = NilVal

\* where each dialect lists the ids of a DELETE
DeleteIDsOf(r, doc) ==
    CASE r \in {"pinecone", "weaviate"} -> doc.m["ids"]
      [] r = "qdrant" -> doc.m["points"]
      [] r = "milvus" -> doc.m["filter"]

\* the placeholders of ids in input order, as the dialect lists them: an array of
\* ":name" strings, or Milvus's expression id in [:name, ...]
ListedIDs(r, ids) ==
    LET written == [i \in 1..Len(ids) |-> ":" \o ids[i].Name]
    IN IF r = "milvus" THEN JStr("id in [" \o Join(written, ", ") \o "]")
       ELSE JArr([i \in 1..Len(ids) |-> JStr(written[i])])

\* what C13 promises of a DELETE by ids
DeleteByIDsPasses ==
    /\ Validated => ret.err = ""
    /\ RenderReturned
           => /\ ret.err = ""
              /\ ret.result.RequiredParams = IDNames(ast.IDs) \o NamespaceRefs(ret.renderer, ast)
              /\ DeleteIDsOf(ret.renderer, ret.result.JSON)
                     = ListedIDs(ret.renderer, ast.IDs)
              /\ (ast.IDs = <<P("id1"), P("id2")>> /\ ret.renderer = "milvus")
                     => ret.result.JSON.m["filter"] = JStr("id in [:id1, :id2]")

\* C13, as the specification words it: every DELETE with a non-empty IDs list and no
\* filter passes validation, with or without deleteAll, and every renderer lists one
\* placeholder per id in input order and requires the id names in that order, then the
\* namespace where the dialect emits it.
C13_AnyIDList == DeleteByIDs(ast) => DeleteByIDsPasses

\* C13, amended: a DELETE on a named target with 1 to 1000 ids and no filter passes
\* validation, with or without deleteAll, and every renderer lists one placeholder per id
\* in input order and requires the id names in that order, then the namespace where the
\* dialect emits it (all but Qdrant). With an empty target name, or with more than 1000
\* ids, validation fails and nothing is rendered.
C13_DeleteByIDs ==
    DeleteByIDs(ast)
        => IF ast.Target.Name # "" /\ Len(ast.IDs) <= MaxIDsPerFetch THEN DeleteByIDsPasses
           ELSE /\ Validated => ret.err = IF ast.Target.Name = "" THEN ErrTarget
                                          ELSE ErrTooManyIDs(Len(ast.IDs))
                /\ RenderReturned => RenderFailed

\* C13 happens: Milvus rendered a DELETE of id1, id2 in a namespace, without deleteAll
C13_Witness ==
    /\ RenderedBy("milvus")
    /\ DeleteByIDs(ast)
    /\ ~ast.DeleteAll
    /\ ast.IDs = <<P("id1"), P("id2")>>
    /\ ast.Namespace # NilVal
    /\ ret.err = ""
    /\ ret.result.RequiredParams = <<"id1", "id2", "ns">>
    /\ ret.result.JSON.m["filter"] = JStr("id in [:id1, :id2]")

-----------------------------------------------------------------------------
(* C14 *)

\* the dialects' comparison operators: greater / less, strict or not
LowerOp(r, strict) ==
    CASE r = "pinecone" -> IF strict THEN "$gt" ELSE "$gte"
      [] r = "qdrant" -> IF strict THEN "gt" ELSE "gte"
      [] r = "milvus" -> IF strict THEN ">" ELSE ">="
      [] r = "weaviate" -> IF strict THEN "GreaterThan" ELSE "GreaterThanEqual"

UpperOp(r, strict) ==
    CASE r = "pinecone" -> IF strict THEN "$lt" ELSE "$lte"
      [] r = "qdrant" -> IF strict THEN "lt" ELSE "lte"
      [] r = "milvus" -> IF strict THEN "<" ELSE "<="
      [] r = "weaviate" -> IF strict THEN "LessThan" ELSE "LessThanEqual"

\* the clauses a range is to render, lower bound first: operator and placeholder
RangeClauses(r, f) ==
    (IF f.Min # NilVal
     THEN <<[op |-> LowerOp(r, f.MinExclusive), value |-> ":" \o f.Min.Name]>> ELSE <<>>)
        \o (IF f.Max # NilVal
            THEN <<[op |-> UpperOp(r, f.MaxExclusive), value |-> ":" \o f.Max.Name]>> ELSE <<>>)

\* where a SEARCH carries its filter
SearchFilterOf(r, doc) == IF r = "weaviate" THEN doc.m["where"] ELSE doc.m["filter"]

\* a comparison clause of Weaviate on a field
WeaviateClause(field, c) ==
    JObj([path |-> JArr(<<JStr(field)>>), operator |-> JStr(c.op), valueNumber |-> JStr(c.value)])

\* the rendered filter is the range's clauses on the field and nothing else, in the
\* dialect's layout
RendersClauses(r, field, v, cs) ==
    CASE r = "pinecone" ->
           /\ DOMAIN v.m = {field}
           /\ DOMAIN v.m[field].m = {cs[i].op : i \in DOMAIN cs}
           /\ \A i \in DOMAIN cs : v.m[field].m[cs[i].op] = JStr(cs[i].value)
      [] r = "qdrant" ->
           /\ DOMAIN v.m = {"must"}
           /\ Len(v.m["must"].a) = 1
           /\ LET c == v.m["must"].a[1].m
              IN /\ DOMAIN c = {"key", "range"}
                 /\ c["key"] = JStr(field)
                 /\ DOMAIN c["range"].m = {cs[i].op : i \in DOMAIN cs}
                 /\ \A i \in DOMAIN cs : c["range"].m[cs[i].op] = JStr(cs[i].value)
      [] r = "milvus" ->
           v = JStr("(" \o Join([i \in DOMAIN cs |->
                                    field \o " " \o cs[i].op \o " " \o cs[i].value],
                                " and ") \o ")")
      [] r = "weaviate" ->
           IF Len(cs) = 1 THEN v = WeaviateClause(field, cs[1])
           ELSE v = JObj([operator |-> JStr("And"),
                          operands |-> JArr([i \in DOMAIN cs |-> WeaviateClause(field, cs[i])])])

\* a SEARCH filtered by one range
RangeSearch(a) ==
    /\ a.Operation = OpSearch
    /\ a.FilterClause # NilVal
    /\ a.FilterClause.type = "RangeFilter"

\* C14: a successfully rendered SEARCH filtered by a RangeFilter carries a lower-bound
\* clause if and only if min is set, with the strict "greater than" operator when
\* minExclusive is true and "greater or equal" otherwise, and an upper-bound clause if
\* and only if max is set, strict when maxExclusive is true: two clauses at most, and
\* requiredParams receives min, then max. With only min set and minExclusive = true the
\* one clause is strictly-greater-than and there is no upper-bound clause or parameter.
C14_RangeClauses ==
    (RenderReturned /\ RangeSearch(ast) /\ Validate(ast) = "")
        => LET f == ast.FilterClause
               cs == RangeClauses(ret.renderer, f)
           IN /\ ret.err = ""
              /\ Len(cs) <= 2
              /\ RendersClauses(ret.renderer, f.Field.Name,
                                SearchFilterOf(ret.renderer, ret.result.JSON), cs)
              /\ Contributed(ast, ret.result.RequiredParams)
                     = (IF f.Min # NilVal THEN <<f.Min.Name>> ELSE <<>>)
                           \o (IF f.Max # NilVal THEN <<f.Max.Name>> ELSE <<>>)
              /\ (f.Min # NilVal /\ f.Max = NilVal /\ f.MinExclusive)
                     => /\ cs = <<[op |-> LowerOp(ret.renderer, TRUE), value |-> ":" \o f.Min.Name]>>
                        /\ ret.result.RequiredParams
                               = <<"query_vec", f.Min.Name>> \o NamespaceRefs(ret.renderer, ast)

\* C14 happens: Weaviate rendered a SEARCH filtered by price > :lo, with no upper bound
C14_Witness ==
    /\ RenderedBy("weaviate")
    /\ RangeSearch(ast)
    /\ ast.FilterClause.Min = P("lo") /\ ast.FilterClause.Max = NilVal
    /\ ast.FilterClause.MinExclusive
    /\ ast.Namespace = NilVal
    /\ ret.err = ""
    /\ ret.result.JSON.m["where"] =
           JObj([path |-> JArr(<<JStr("price")>>), operator |-> JStr("GreaterThan"),
                 valueNumber |-> JStr(":lo")])
    /\ ret.result.RequiredParams = <<"query_vec", "lo">>

-----------------------------------------------------------------------------
(* C15 *)

\* a SEARCH filtered by one GeoFilter
GeoSearch(a) ==
    /\ a.Operation = OpSearch
    /\ a.FilterClause # NilVal
    /\ a.FilterClause.type = "GeoFilter"

\* the rendered filter is one within-radius clause on the filter's field, around the
\* placeholders of its latitude, longitude and radius
WithinRadius(r, f, v) ==
    CASE r = "qdrant" ->
           /\ DOMAIN v.m = {"must"}
           /\ v.m["must"].a =
                  <<JObj([key |-> JStr(f.Field.Name),
                          geo_radius |->
                              JObj([center |-> JObj([lat |-> Placeholder(f.Center.Lat.Name),
                                                     lon |-> Placeholder(f.Center.Lon.Name)]),
                                    radius |-> Placeholder(f.Radius.Name)])])>>
      [] r = "weaviate" ->
           v = JObj([path |-> JArr(<<JStr(f.Field.Name)>>),
                     operator |-> JStr("WithinGeoRange"),
                     valueGeoRange |->
                         JObj([geoCoordinates |->
                                   JObj([latitude |-> Placeholder(f.Center.Lat.Name),
                                         longitude |-> Placeholder(f.Center.Lon.Name)]),
                               distance |-> JObj([max |-> Placeholder(f.Radius.Name)])])])
      [] OTHER -> v.j \in {"object", "string"}

\* C15: every renderer renders a GeoFilter as a single within-radius clause and appends
\* exactly three names to requiredParams, in the order latitude, longitude, radius.
C15_GeoParams ==
    (RenderReturned /\ GeoSearch(ast) /\ Validate(ast) = "")
        => /\ ret.err = ""
           /\ ret.result # NilVal
           /\ Contributed(ast, ret.result.RequiredParams)
                  = <<ast.FilterClause.Center.Lat.Name, ast.FilterClause.Center.Lon.Name,
                      ast.FilterClause.Radius.Name>>
           /\ WithinRadius(ret.renderer, ast.FilterClause,
                           SearchFilterOf(ret.renderer, ret.result.JSON))

-----------------------------------------------------------------------------
(* C16 *)

\* the strings of a document: every string value at any depth
RECURSIVE DocStrings(_)
DocStrings(v) ==
    CASE v.j = "string" -> {v.s}
      [] v.j = "array" -> UNION {DocStrings(v.a[i]) : i \in DOMAIN v.a}
      [] v.j = "object" -> UNION {DocStrings(v.m[k]) : k \in DOMAIN v.m}
      [] OTHER -> {}

\* the names of all the Params an AST holds
AllParams(a) ==
    ReachableParams(a) \cup OptionNames(a)
        \cup {a.Updates[k].Name : k \in DOMAIN a.Updates}
        \cup UNION {{a.Vectors[i].Metadata[k].Name : k \in DOMAIN a.Vectors[i].Metadata} :
                       i \in DOMAIN a.Vectors}

\* the names whose placeholders Milvus writes inside a filter expression, which is one
\* string of the document: a NOT group writes those of its first child only
RECURSIVE milvus_exprNames(_)
milvus_exprNames(f) ==
    CASE f.type = "FilterCondition" -> {f.Value.Name}
      [] f.type = "FilterGroup" /\ f.Logic = LogicNOT ->
           IF Len(f.Conditions) > 0 THEN milvus_exprNames(f.Conditions[1]) ELSE {}
      [] f.type = "FilterGroup" /\ f.Logic # LogicNOT ->
           UNION {milvus_exprNames(f.Conditions[i]) : i \in DOMAIN f.Conditions}
      [] f.type = "RangeFilter" ->
           (IF f.Min # NilVal THEN {f.Min.Name} ELSE {})
               \cup (IF f.Max # NilVal THEN {f.Max.Name} ELSE {})
      [] OTHER -> {}

\* the names whose placeholders stand in Milvus's "filter" expression of the AST, when
\* the document has one
milvus_filterNames(a, doc) ==
    IF "filter" \notin DOMAIN doc.m THEN {}
    ELSE IF a.Operation = OpFetch \/ (a.Operation = OpDelete /\ Len(a.IDs) > 0)
         THEN {a.IDs[i].Name : i \in DOMAIN a.IDs}
    ELSE milvus_exprNames(a.FilterClause)

\* the names that stand in the document as placeholders
PlaceholderNames(r, a, doc) ==
    {n \in AllParams(a) : (":" \o n) \in DocStrings(doc)}
        \cup (IF r = "milvus" THEN milvus_filterNames(a, doc) ELSE {})

\* C16: in every successfully rendered result, the names that stand in the document as
\* ":name" placeholders are exactly the names of requiredParams: no name is required
\* without its placeholder in the document, no placeholder stands in the document
\* without its name being required.
C16_PlaceholdersMatch ==
    RenderSucceeded
        => PlaceholderNames(ret.renderer, ast, ret.result.JSON) = Elems(ret.result.RequiredParams)

-----------------------------------------------------------------------------
(* C17 *)

\* C17: Validate and Render of every renderer leave the AST unchanged. No block of a
\* Validate call or of a Render call, by any renderer, on its way to a result or to an
\* error, changes a field of the AST it was handed or of any other AST: after every
\* step, and so after any sequence and any interleaving of calls, the shared AST and the
\* ASTs the callers hold for themselves (filter tree, records, ids and updates among
\* their fields) are what they were before.
C17_IRUnchanged ==
    [][ast' = ast /\ threads'.own = threads.own]_vars

\* C17 happens: Pinecone gave up on the shared SEARCH in the middle of rendering it, at
\* its geo filter, Milvus rendered the UPSERT of the second caller to the end, record
\* after record, and both ASTs hold what they held
C17_Witness ==
    /\ origin = "concurrent"
    /\ ast.Operation = OpSearch
    /\ ast.QueryVector = Vec(P("query_vec"))
    /\ ast.FilterClause = LeafGeo
    /\ threads.call[1].call = "Render"
    /\ threads.call[1].renderer = "pinecone"
    /\ threads.call[1].on = "shared"
    /\ threads.call[1].pc = "done"
    /\ threads.call[1].out.err = ErrUnsupportedFilter(LeafGeo)
    /\ threads.call[2].call = "Render"
    /\ threads.call[2].renderer = "milvus"
    /\ threads.call[2].on = "own"
    /\ threads.call[2].pc = "done"
    /\ threads.call[2].out.err = ""
    /\ threads.own[2].Vectors = <<RecFull, RecLiteral>>

-----------------------------------------------------------------------------
(* C18 *)

\* s is the beginning of t
IsPrefix(s, t) == Len(s) <= Len(t) /\ \A i \in DOMAIN s : s[i] = t[i]

\* C18: Render is safe under concurrency without synchronization. Whatever the
\* interleaving of the blocks of concurrent Render calls, on the same renderer or on
\* different ones, over the same AST or over distinct ones, every call returns exactly
\* what Render returns for its renderer and its AST when it runs alone (under the same
\* draws of the runtime's map iteration order), and its accumulator holds its own
\* appends only, while it runs and when it returns: no call sees or changes the
\* accumulator or the document of another.
C18_NoInterference ==
    origin = "concurrent"
        => \A t \in Threads :
               LET f == threads.call[t]
               IN /\ (f.call = "Render" /\ f.pc = "done")
                      => /\ f.out.result = Render(f.renderer, IR(t), f.orc).result
                         /\ f.out.err = Render(f.renderer, IR(t), f.orc).err
                         /\ threads.cells[Accumulator(t)]
                                = Accumulated(Render(f.renderer, IR(t), f.orc))
                  /\ (f.call = "Render" /\ f.pc \notin ValidateBlocks \cup {"params", "done"})
                      => \E orc \in OraclesFor(IR(t)) :
                             IsPrefix(threads.cells[Accumulator(t)],
                                      Accumulated(Render(f.renderer, IR(t), orc)))

\* C18 happens: a Render of Qdrant on the shared SEARCH stands before its filter, its
\* accumulator holding the names of its first blocks, and a second Render of Qdrant on
\* the same SEARCH has meanwhile run to its end and holds the result of the call run
\* alone
C18_Witness ==
    /\ origin = "concurrent"
    /\ threads.call[1].call = "Render"
    /\ threads.call[1].renderer = "qdrant"
    /\ threads.call[1].on = "shared"
    /\ threads.call[1].pc = "renderSearch.filter"
    /\ threads.cells[Accumulator(1)] = <<"query_vec", "k", "min_score">>
    /\ threads.call[2].call = "Render"
    /\ threads.call[2].renderer = "qdrant"
    /\ threads.call[2].on = "shared"
    /\ threads.call[2].pc = "done"
    /\ threads.call[2].out.err = ""
    /\ threads.call[2].out.result.RequiredParams
           = <<"query_vec", "k", "min_score", "active", "min_price", "category">>

-----------------------------------------------------------------------------
(* C19 *)

\* an AST that carries a filter with a node below more than MaxFilterDepth groups (as
\* every unrolling of a cyclic tree has) and breaks no other rule
TooDeep(a) ==
    /\ a.Operation \in {OpSearch, OpDelete}
    /\ a.FilterClause # NilVal
    /\ GroupsAbove(a.FilterClause) > MaxFilterDepth
    /\ a.Operation = OpSearch => ValidButForFilter(a)
    /\ a.Operation = OpDelete
           => a.Target.Name # "" /\ a.DeleteAll /\ Len(a.IDs) <= MaxIDsPerFetch

\* C19: a SEARCH or a DELETE whose filter is nested beyond the limit (a cyclic tree, a
\* tree nested without bound) is rejected by Validate with the depth error, so that
\* every Render fails on it before walking the tree.
C19_DeepFilterRejected ==
    TooDeep(ast)
        => /\ Validated => ret.err = ErrDepth(MaxFilterDepth + 1)
           /\ RenderReturned
                  => RenderFailed /\ ret.err = ErrInvalidAST(ErrDepth(MaxFilterDepth + 1))

-----------------------------------------------------------------------------
(* C20 *)

\* the dialects' mapping tables, operator to keyword
PineconeTable ==
    (OpEQ :> "$eq") @@ (OpNE :> "$ne") @@ (OpGT :> "$gt") @@ (OpGE :> "$gte")
        @@ (OpLT :> "$lt") @@ (OpLE :> "$lte") @@ (OpIN :> "$in") @@ (OpNotIn :> "$nin")

MilvusTable ==
    (OpEQ :> "==") @@ (OpNE :> "!=") @@ (OpGT :> ">") @@ (OpGE :> ">=")
        @@ (OpLT :> "<") @@ (OpLE :> "<=") @@ (OpIN :> "in") @@ (OpNotIn :> "not in")
        @@ (OpContains :> "like")

WeaviateTable ==
    (OpEQ :> "Equal") @@ (OpNE :> "NotEqual") @@ (OpGT :> "GreaterThan")
        @@ (OpGE :> "GreaterThanEqual") @@ (OpLT :> "LessThan") @@ (OpLE :> "LessThanEqual")
        @@ (OpContains :> "ContainsAny") @@ (OpExists :> "IsNull")

\* Qdrant renders every condition as a match, not-equal under must_not
QdrantTable == (OpNE :> "must_not")

\* the keyword the dialect is to render an operator as: the table's, or the equality
\* default for an operator the table lacks
Keyword(r, op) ==
    CASE r = "pinecone" -> IF op \in DOMAIN PineconeTable THEN PineconeTable[op] ELSE "$eq"
      [] r = "milvus" -> IF op \in DOMAIN MilvusTable THEN MilvusTable[op] ELSE "=="
      [] r = "weaviate" -> IF op \in DOMAIN WeaviateTable THEN WeaviateTable[op] ELSE "Equal"
      [] r = "qdrant" -> IF op \in DOMAIN QdrantTable THEN QdrantTable[op] ELSE "must"

\* the rendered filter v is the condition f under the keyword kw, in the dialect's layout
RendersCondition(r, f, v, kw) ==
    CASE r = "pinecone" ->
           v = JObj((f.Field.Name :> JObj((kw :> JStr(":" \o f.Value.Name)))))
      [] r = "milvus" ->
           v = JStr(f.Field.Name \o " " \o kw \o " :" \o f.Value.Name)
      [] r = "weaviate" ->
           v = JObj([path |-> JArr(<<JStr(f.Field.Name)>>), operator |-> JStr(kw),
                     valueString |-> JStr(":" \o f.Value.Name)])
      [] r = "qdrant" ->
           v = JObj((kw :> JArr(<<JObj([key |-> JStr(f.Field.Name),
                                        match |-> JObj([value |-> JStr(":" \o f.Value.Name)])])>>)))

\* a SEARCH filtered by one FilterCondition
ConditionSearch(a) ==
    /\ a.Operation = OpSearch
    /\ a.FilterClause # NilVal
    /\ a.FilterClause.type = "FilterCondition"

\* the query vector is a Param or a literal of finite floats (json.Marshal refuses the
\* others, whatever the filter)
FiniteVector(a) ==
    \/ a.QueryVector.Literal = NilVal
    \/ \A i \in DOMAIN a.QueryVector.Literal.elems : a.QueryVector.Literal.elems[i] # NaN

\* C20: rendering a FilterCondition never returns an error, whichever of the 17
\* operators it bears and whichever the renderer: an operator of the dialect's mapping
\* table renders as its keyword (Pinecone EQ..NOT_IN as $eq, $ne, $gt, $gte, $lt, $lte,
\* $in, $nin; Milvus as ==, !=, >, >=, <, <=, in, not in, like; Weaviate as Equal ..
\* LessThanEqual, ContainsAny, IsNull; Qdrant NE as must_not), every other operator as
\* the dialect's equality default ($eq, ==, Equal, must with match).
C20_OperatorFallback ==
    (RenderReturned /\ ConditionSearch(ast) /\ Validate(ast) = "" /\ FiniteVector(ast))
        => /\ ast.FilterClause.Operator \in FilterOperators
           /\ ret.err = ""
           /\ RendersCondition(ret.renderer, ast.FilterClause,
                               SearchFilterOf(ret.renderer, ret.result.JSON),
                               Keyword(ret.renderer, ast.FilterClause.Operator))

\* C20 happens: Weaviate, whose table has no STARTS_WITH, rendered it as Equal
C20_Witness ==
    /\ RenderedBy("weaviate")
    /\ ConditionSearch(ast)
    /\ ast.FilterClause.Operator = OpStartsWith
    /\ ret.err = ""
    /\ ret.result.JSON.m["where"].m["operator"] = JStr("Equal")

-----------------------------------------------------------------------------
(* C21 *)

\* the builder holds an error a method recorded
BuilderFailed == origin = "builder" /\ err # ""

\* C21: the builder's error is sticky. Once a method has recorded an error, every later
\* call on the builder leaves the recorded error and the AST as they were, and Build
\* and Render return that error with no result: no validation, no renderer.
C21_StickyError ==
    [][BuilderFailed =>
          /\ err' = err
          /\ ast' = ast
          /\ ret'.call \in {"Build", "Render"} => (ret'.err = err /\ ret'.result = NilVal)]_vars

\* C21 happens: a SEARCH builder that recorded TopK's error was rendered and returned
\* it, while Validate would have reported the missing query vector
C21_Witness ==
    /\ BuilderFailed
    /\ ast.Operation = OpSearch
    /\ err = "topK must be positive: 0"
    /\ ret.call = "Render"
    /\ ret.err = err
    /\ ret.result = NilVal
    /\ Validate(ast) \notin {"", err}

-----------------------------------------------------------------------------
(* C22 *)

\* the builder's AST is within the batch, ID and topK limits
BuilderWithinLimits ==
    /\ Len(ast.Vectors) <= MaxBatchSize
    /\ Len(ast.IDs) <= MaxIDsPerFetch
    /\ (ast.TopK # NilVal /\ ast.TopK.Static # NilVal)
          => (ast.TopK.Static.val >= 1 /\ ast.TopK.Static.val <= MaxTopK)

\* the call recorded an error and left the AST, the limited field included, as it was
Refused == err' # "" /\ ast' = ast

\* the builder accepts the setters of operation op
Accepting(op) == origin = "builder" /\ err = "" /\ ast.Operation \in op

\* C22: whatever the sequence of builder calls, the builder's AST holds at most 100
\* vector records, at most 1000 IDs and a static topK, when set, between 1 and 10000;
\* a call that would exceed a limit (TopK(k) with k > 10000 or k <= 0, AddVector on a
\* full batch, Vectors with more than 100 records, IDs with more than 1000 ids)
\* records an error and leaves the field as it was.
C22_WithinLimits ==
    /\ [](origin = "builder" => BuilderWithinLimits)
    /\ [][/\ \A k \in BuilderTopKs :
               (Accepting({OpSearch}) /\ (k > MaxTopK \/ k <= 0) /\ TopK(k)) => Refused
          /\ \A record \in BuilderRecords :
               (Accepting({OpUpsert}) /\ Len(ast.Vectors) >= MaxBatchSize /\ AddVector(record))
                   => Refused
          /\ \A records \in BuilderBatches :
               (Accepting({OpUpsert}) /\ Len(records) > MaxBatchSize /\ Vectors(records))
                   => Refused
          /\ \A ids \in BuilderIDs :
               (Accepting({OpDelete, OpFetch, OpUpdate}) /\ Len(ids) > MaxIDsPerFetch /\ IDs(ids))
                   => Refused]_vars

\* C22 happens: AddVector found the batch full, recorded its error and left the 100
\* records as they were
C22_Witness ==
    /\ origin = "builder"
    /\ ast.Operation = OpUpsert
    /\ Len(ast.Vectors) = MaxBatchSize
    /\ err = "batch size exceeds maximum: " \o ToString(MaxBatchSize)

-----------------------------------------------------------------------------
(* C23 *)

\* every range filter of the tree has a min or a max
RECURSIVE RangesBounded(_)
RangesBounded(f) ==
    CASE f = NilVal -> TRUE
      [] f.type = "RangeFilter" -> f.Min # NilVal \/ f.Max # NilVal
      [] f.type = "FilterGroup" ->
           \A i \in DOMAIN f.Conditions : RangesBounded(f.Conditions[i])
      [] OTHER -> TRUE

\* C23: a RangeFilter has at least one bound when it reaches a renderer. Every public
\* constructor (the package functions Range and RangeExclusive, the instance methods
\* TryRange, TryRangeExclusive, Range, RangeExclusive) rejects the case where min and
\* max are both absent, so no IR that Build returns, and none that Render hands to a
\* renderer, contains a range filter with neither bound.
C23_RangeHasBound ==
    (origin = "builder" /\ ret.call \in {"Build", "Render"} /\ ret.err = "")
        => RangesBounded(ast.FilterClause)

-----------------------------------------------------------------------------
(* C24 *)

\* C24: every IR that Validate accepts, whatever its operation, has a filter tree of
\* nesting depth at most 5 (no node of the tree lies below more than 5 groups): a
\* DELETE with deleteAll set whose filter nests deeper is rejected, as a SEARCH is.
C24_AcceptedDepth ==
    (Validated /\ ret.err = "" /\ ast.FilterClause # NilVal)
        => GroupsAbove(ast.FilterClause) <= MaxFilterDepth

-----------------------------------------------------------------------------
(* C25 *)

\* the keys of the document Render returned
DocKeys == DOMAIN ret.result.JSON.m

\* Pinecone rendered the DELETE in ast without an error
PineconeDeleted == RenderedBy("pinecone") /\ ast.Operation = OpDelete /\ ret.err = ""

\* C25: a Pinecone DELETE rendered from a filter (no IDs, deleteAll set in the IR)
\* carries the rendered filter together with "deleteAll": false; no Pinecone DELETE
\* document carries deleteAll true, and a DELETE by IDs carries no deleteAll key.
C25_DeleteAllFalse ==
    PineconeDeleted
        => /\ (Len(ast.IDs) = 0 /\ ast.FilterClause # NilVal /\ ast.DeleteAll)
                 => /\ {"filter", "deleteAll"} \subseteq DocKeys
                    /\ ret.result.JSON.m["filter"]
                           = pinecone_renderFilter(ast.FilterClause, <<>>).v
                    /\ ret.result.JSON.m["deleteAll"] = JBool(FALSE)
           /\ "deleteAll" \in DocKeys => ret.result.JSON.m["deleteAll"] # JBool(TRUE)
           /\ Len(ast.IDs) > 0 => "deleteAll" \notin DocKeys

\* C25 happens: Pinecone rendered a DELETE by filter whose IR has deleteAll set, and
\* the document says "deleteAll": false beside the filter
C25_Witness ==
    /\ PineconeDeleted
    /\ Len(ast.IDs) = 0
    /\ ast.FilterClause = LeafActive
    /\ ast.DeleteAll
    /\ ret.result.JSON.m["deleteAll"] = JBool(FALSE)
    /\ "filter" \in DocKeys

-----------------------------------------------------------------------------
(* C26 *)

\* C26: every entry of requiredParams is the non-empty name of a Param present in the
\* IR, a name the caller can bind. A FilterCondition with operator EXISTS or
\* NOT_EXISTS, whose value is omitted, contributes no entry to requiredParams and no
\* placeholder with an empty name to the document.
C26_BindableParams ==
    RenderSucceeded
        => /\ \A n \in Elems(ret.result.RequiredParams) : n # "" /\ n \in AllParams(ast)
           /\ ":" \notin DocStrings(ret.result.JSON)
           /\ "" \notin PlaceholderNames(ret.renderer, ast, ret.result.JSON)

-----------------------------------------------------------------------------
(* C27 *)

\* the document renderer r returns for AST a with its condition's operator set to op
RenderedWith(r, a, op, orc) ==
    Render(r, [a EXCEPT !.FilterClause.Operator = op], orc).result.JSON

\* renderer r gives the condition of a its own encoding under each operator it
\* declares supported: no two of them render a to the same document
DistinctWhenSupported(r, a) ==
    \A op1, op2 \in {op \in FilterOperators : SupportsFilter(r, op)} :
        op1 # op2
            => \A orc \in OraclesFor(a) :
                   RenderedWith(r, a, op1, orc) # RenderedWith(r, a, op2, orc)

\* C27: for every renderer the capability predicate agrees with the rendering. An
\* operator for which SupportsFilter is true is rendered with an encoding of its own
\* and not with the fallback: two conditions on the same field and value with two
\* different supported operators never render to the same document.
C27_SupportedDistinct ==
    (RenderSucceeded /\ ConditionSearch(ast))
        => DistinctWhenSupported(ret.renderer, ast)

-----------------------------------------------------------------------------
(* C28 *)

\* Build has just returned an AST to the caller
BuildSucceeded == origin = "builder" /\ ret.call = "Build" /\ ret.err = ""

\* C28: an AST returned by Build is not affected by later calls on the same builder.
\* A call that follows a successful Build leaves the returned AST equal to what Build
\* returned, so that it still passes Validate.
C28_BuiltUnaffected ==
    [][BuildSucceeded => (BuiltAST' = ret.result /\ Validate(BuiltAST') = "")]_vars

-----------------------------------------------------------------------------
(* C29 *)

\* the clause k Filter calls with the leaf condition f leave: f itself, then
\* AND[previous clause, f]
RECURSIVE FilterChain(_, _)
FilterChain(f, k) ==
    IF k = 0 THEN NilVal
    ELSE IF k = 1 THEN f
    ELSE Group(LogicAND, <<FilterChain(f, k - 1), f>>)

\* the level of the deepest leaf below the root of a left-nested chain
RECURSIVE LeftDepth(_)
LeftDepth(f) == IF f.type # "FilterGroup" THEN 0 ELSE 1 + LeftDepth(f.Conditions[1])

\* a SEARCH builder without an error, its Filter calls counted by calls.filter
SearchBuilder == origin = "builder" /\ ast.Operation = OpSearch /\ err = ""

\* C29: on a Search builder the first Filter call stores the filter and each later
\* Filter(f) replaces the clause by AND[previous clause, f]: k calls with leaf
\* conditions leave a left-nested AND chain whose deepest leaf lies k-1 levels down.
\* Build of an otherwise valid SEARCH succeeds for every k <= 6 and fails with the
\* filter-nesting-too-deep error for every k >= 7.
C29_FilterChain ==
    SearchBuilder
        => /\ \E f \in BuilderFilters : ast.FilterClause = FilterChain(f, calls.filter)
           /\ calls.filter >= 1 => LeftDepth(ast.FilterClause) = calls.filter - 1
           /\ (ret.call = "Build" /\ ValidButForFilter(ast))
                 => /\ calls.filter <= 6 => (ret.err = "" /\ ret.result = ast)
                    /\ calls.filter >= 7
                          => (ret.err = ErrDepth(MaxFilterDepth + 1) /\ ret.result = NilVal)

\* C29 happens: Build refused an otherwise valid SEARCH after seven Filter calls
C29_Witness ==
    /\ SearchBuilder
    /\ calls.filter = 7
    /\ ValidButForFilter(ast)
    /\ ret.call = "Build"
    /\ ret.err = ErrDepth(MaxFilterDepth + 1)

\* and it accepted the SEARCH after six
C29_WitnessSix ==
    /\ SearchBuilder
    /\ calls.filter = 6
    /\ LeftDepth(ast.FilterClause) = 5
    /\ ret.call = "Build"
    /\ ret.err = ""

-----------------------------------------------------------------------------
(* C30 *)

\* what renderer r makes of the filter f alone: the clause and the error
FilterAlone(r, f) ==
    CASE r = "pinecone" -> pinecone_renderFilter(f, <<>>)
      [] r = "qdrant" -> qdrant_renderFilter(f, <<>>)
      [] r = "milvus" -> [milvus_renderFilter(f, <<>>) EXCEPT !.v = JStr(@)]
      [] r = "weaviate" -> weaviate_renderFilter(f, <<>>)

RenderedFilter(r, f) == FilterAlone(r, f).v

\* the clauses inside the negation container of a rendered NOT group
NegatedClauses(r, v) ==
    CASE r = "pinecone" -> v.m[pinecone_mapLogic(LogicNOT)].a
      [] r = "qdrant" -> v.m[qdrant_mapLogic(LogicNOT)].a
      [] r = "weaviate" -> v.m["operands"].a

\* the group f without its i-th child
WithoutChild(f, i) ==
    [f EXCEPT !.Conditions = SubSeq(@, 1, i - 1) \o SubSeq(@, i + 1, Len(@))]

\* a SEARCH filtered by a NOT group
NotSearch(a) ==
    /\ a.Operation = OpSearch
    /\ a.FilterClause # NilVal
    /\ a.FilterClause.type = "FilterGroup"
    /\ a.FilterClause.Logic = LogicNOT

\* renderer r renders each child of the group f when it stands alone
ChildrenRender(r, f) == \A i \in DOMAIN f.Conditions : FilterAlone(r, f.Conditions[i]).err = ""

\* C30: every renderer renders a NOT FilterGroup of n >= 0 children from all n of
\* them. The Params of each child stand in requiredParams in child order and each
\* child has its rendered clause inside the negation container (in Milvus's
\* expression: taking a child away changes the expression); no child that the dialect
\* can render is dropped, and n = 0 is no error.
C30_NotRendersAll ==
    (/\ RenderReturned /\ NotSearch(ast) /\ Validate(ast) = "" /\ FiniteVector(ast)
     /\ ChildrenRender(ret.renderer, ast.FilterClause))
        => LET f == ast.FilterClause
               r == ret.renderer
               v == SearchFilterOf(r, ret.result.JSON)
           IN /\ ret.err = ""
              /\ Contributed(ast, ret.result.RequiredParams) = Walk(f)
              /\ r # "milvus"
                    => NegatedClauses(r, v)
                           = [i \in 1..Len(f.Conditions) |-> RenderedFilter(r, f.Conditions[i])]
              /\ r = "milvus"
                    => \A i \in 1..Len(f.Conditions) : v # RenderedFilter(r, WithoutChild(f, i))
====
